---------------------------- MODULE Spec2Model ----------------------------
(***************************************************************************)
(* Model of colour.plotting (src/colour/plotting/plots.py and              *)
(* src/colour/plotting/characterization.py).                               *)
(*                                                                         *)
(* Three groups of state:                                                  *)
(*   - the wavelength-label placement of the chromaticity diagram plots,   *)
(*     a pure computation on a table of locus coordinates;                 *)
(*   - one call of a plotting definition, recorded as the sequence of      *)
(*     calls it issues to the helpers and to the rendering backend;        *)
(*   - the steps of the figure_size decorator in several threads.          *)
(*                                                                         *)
(* Coordinates are exact and expressed in thirds of a unit, so that the    *)
(* equal energy point (1/3, 1/3) is the integer pair <<1, 1>>.  A vector   *)
(* normalised by "norme" is kept as its integer direction together with    *)
(* the rational factor applied to the unit vector; the normalisation of    *)
(* the zero vector is "nan" (0.0 / 0.0 in numpy).                          *)
(***************************************************************************)
EXTENDS Integers, Sequences, FiniteSets, TLC

VARIABLES
    wavelengths,    \* cmfs.wavelengths of the table given to label placement
    coordinates,    \* the locus coordinate computed for each wavelength
    diagram,        \* which diagram plot ran its label loop last ("none" at first)
    placement,      \* what that label loop drew, and the error that ended it
    call,           \* the last call made to colour.plotting: definition and arguments
    outcome,        \* what that call did: the calls it issued, its error, its result
    figsize,        \* pylab.rcParams['figure.figsize']
    threads         \* per thread inside a decorated call: where it is in
                    \* figure_size_wrapper, the size it asked for, the size
                    \* its body ran under

labelVars == <<wavelengths, coordinates, diagram, placement>>
plotVars == <<call, outcome, figsize>>
vars == <<wavelengths, coordinates, diagram, placement, call, outcome, figsize,
          threads>>

-----------------------------------------------------------------------------
(* Bounds of the label placement inputs.                                   *)

MaxLen == 3
MaxCoord == 2

\* The wavelengths a table may sample.
WaveUniverse == {390, 460, 620, 700}

Coord == 0..MaxCoord
Point == Coord \X Coord

-----------------------------------------------------------------------------
(* Library primitives used by the label placement.                         *)

\* seq[i] with Python indexing: 0-based, negative i counts from the end.
PyIndex(seq, i) == IF i >= 0 THEN seq[i + 1] ELSE seq[Len(seq) + i + 1]

\* bisect.bisect_left in place of bisect.bisect: the entries < x.
bisect_left(a, x) == Cardinality({i \in 1..Len(a) : a[i] < x})

\* bisect.bisect(a, x) == bisect_right: the number of leading entries <= x
\* of the sorted list a.
bisect(a, x) == Cardinality({i \in 1..Len(a) : a[i] <= x})

dot(a, b) == a[1] * b[1] + a[2] * b[2]

IsZero(v) == v[1] = 0 /\ v[2] = 0

\* DotOfNormeIsPositive with the comparison turned round.
DotOfNormeIsNegative(a, b) ==
    IF (a[1] = 0 /\ a[2] = 0) \/ (b[1] = 0 /\ b[2] = 0) THEN FALSE
    ELSE a[1] * b[1] + a[2] * b[2] < 0

\* np.dot(norme(a), norme(b)) > 0 with norme = x / np.linalg.norm(x):
\* dividing by a positive norm keeps the sign of the dot product, and the
\* normalisation of a zero vector is nan, for which every comparison is False.
DotOfNormeIsPositive(a, b) ==
    IF IsZero(a) \/ IsZero(b) THEN FALSE ELSE dot(a, b) > 0

\* norme(v) / 25: the unit vector of direction "dir" scaled by num / den.
norme(v) == [dir |-> v, nan |-> IsZero(v), num |-> 1, den |-> 1]

Scaled(n, k, d) == [n EXCEPT !.num = n.num * k, !.den = n.den * d]

\* The sign of the x component of a scaled normalised vector; nan has none.
XSign(n) ==
    IF n.nan THEN "nan"
    ELSE IF n.dir[1] > 0 THEN "pos"
    ELSE IF n.dir[1] < 0 THEN "neg" ELSE "zero"

\* "normal[0] > 0" in place of "normal[0] >= 0".
XIsPositive(n) == ~n.nan /\ n.dir[1] > 0

\* "normal[0] >= 0" as numpy evaluates it (False for nan).
XIsNonNegative(n) == XSign(n) \in {"pos", "zero"}

EqualEnergy == <<1, 1>>

Minus(a, b) == <<a[1] - b[1], a[2] - b[2]>>

\* A lookup that falls back on the nearest wavelength of the table.
DictGetNearest(ws, cs, w) ==
    cs[CHOOSE i \in 1..Len(ws) :
          \A j \in 1..Len(ws) :
              \/ (ws[i] - w) * (ws[i] - w) < (ws[j] - w) * (ws[j] - w)
              \/ (ws[i] - w) * (ws[i] - w) = (ws[j] - w) * (ws[j] - w) /\ i <= j]

\* dict(zip(wavelengths, coordinates)).get(w): None when w is not a key.
DictGet(ws, cs, w) ==
    IF \E i \in 1..Len(ws) : ws[i] = w
    THEN cs[CHOOSE i \in 1..Len(ws) : ws[i] = w /\ \A j \in i + 1..Len(ws) : ws[j] # w]
    ELSE "None"

-----------------------------------------------------------------------------
(* The label loops of the three chromaticity diagram plots.  Each takes    *)
(* the table's wavelengths ws and the coordinates cs computed for them     *)
(* (XYZ_to_xy, UCS_to_uv or Luv_to_uv of the table values) and places one  *)
(* label.                                                                  *)

\* The labels each diagram places: the model's tables sample WaveUniverse,
\* and these are the entries of the hardcoded lists that fall in it.
labels_1931 == <<390, 460, 700>>
labels_1960 == <<460, 620>>
labels_1976 == <<460, 620>>

\* One iteration of "for label in labels" of CIE_1931_chromaticity_diagram_plot
\* for a label that is a key of the mapping.
label_1931(ws, cs, label) ==
    LET xy     == DictGet(ws, cs, label)
        index  == bisect(ws, label)
        left   == IF index >= 0 THEN PyIndex(ws, index - 1) ELSE PyIndex(ws, index)
        right  == IF index < Len(ws) THEN PyIndex(ws, index) ELSE PyIndex(ws, -1)
        dx     == DictGet(ws, cs, right)[1] - DictGet(ws, cs, left)[1]
        dy     == DictGet(ws, cs, right)[2] - DictGet(ws, cs, left)[2]
        direction == <<-dy, dx>>
        chosen == IF DotOfNormeIsPositive(Minus(xy, EqualEnergy), direction)
                  THEN <<-dy, dx>> ELSE <<dy, -dx>>
        normal == Scaled(norme(chosen), 1, 25)
    IN  [label |-> label, point |-> xy, left |-> left, right |-> right,
         tangent |-> <<dx, dy>>, normal |-> normal,
         tick |-> Scaled(normal, 3, 4), text |-> normal,
         ha |-> IF XIsNonNegative(normal) THEN "left" ELSE "right"]

\* The same iteration in CIE_1960_UCS_chromaticity_diagram_plot.
label_1960(ws, cs, label) ==
    LET uv     == DictGet(ws, cs, label)
        index  == bisect(ws, label)
        left   == IF index >= 0 THEN PyIndex(ws, index - 1) ELSE PyIndex(ws, index)
        right  == IF index < Len(ws) THEN PyIndex(ws, index) ELSE PyIndex(ws, -1)
        dx     == DictGet(ws, cs, right)[1] - DictGet(ws, cs, left)[1]
        dy     == DictGet(ws, cs, right)[2] - DictGet(ws, cs, left)[2]
        direction == <<-dy, dx>>
        chosen == IF DotOfNormeIsPositive(Minus(uv, EqualEnergy), direction)
                  THEN <<-dy, dx>> ELSE <<dy, -dx>>
        normal == Scaled(norme(chosen), 1, 25)
    IN  [label |-> label, point |-> uv, left |-> left, right |-> right,
         tangent |-> <<dx, dy>>, normal |-> normal,
         tick |-> Scaled(normal, 3, 4), text |-> normal,
         ha |-> IF XIsNonNegative(normal) THEN "left" ELSE "right"]

\* The iteration with the origin as the interior reference point.
label_from_origin(ws, cs, label) ==
    LET uv     == DictGet(ws, cs, label)
        index  == bisect(ws, label)
        left   == IF index >= 0 THEN PyIndex(ws, index - 1) ELSE PyIndex(ws, index)
        right  == IF index < Len(ws) THEN PyIndex(ws, index) ELSE PyIndex(ws, -1)
        dx     == DictGet(ws, cs, right)[1] - DictGet(ws, cs, left)[1]
        dy     == DictGet(ws, cs, right)[2] - DictGet(ws, cs, left)[2]
        chosen == IF DotOfNormeIsPositive(Minus(uv, <<0, 0>>), <<-dy, dx>>)
                  THEN <<-dy, dx>> ELSE <<dy, -dx>>
        normal == Scaled(norme(chosen), 1, 25)
    IN  [label |-> label, point |-> uv, left |-> left, right |-> right,
         tangent |-> <<dx, dy>>, normal |-> normal,
         tick |-> Scaled(normal, 3, 4), text |-> normal,
         ha |-> IF XIsNonNegative(normal) THEN "left" ELSE "right"]

\* The same iteration in CIE_1976_UCS_chromaticity_diagram_plot.
label_1976(ws, cs, label) ==
    LET uv     == DictGet(ws, cs, label)
        index  == bisect(ws, label)
        left   == IF index >= 0 THEN PyIndex(ws, index - 1) ELSE PyIndex(ws, index)
        right  == IF index < Len(ws) THEN PyIndex(ws, index) ELSE PyIndex(ws, -1)
        dx     == DictGet(ws, cs, right)[1] - DictGet(ws, cs, left)[1]
        dy     == DictGet(ws, cs, right)[2] - DictGet(ws, cs, left)[2]
        direction == <<-dy, dx>>
        chosen == IF DotOfNormeIsPositive(Minus(uv, EqualEnergy), direction)
                  THEN <<-dy, dx>> ELSE <<dy, -dx>>
        normal == Scaled(norme(chosen), 1, 25)
    IN  [label |-> label, point |-> uv, left |-> left, right |-> right,
         tangent |-> <<dx, dy>>, normal |-> normal,
         tick |-> Scaled(normal, 3, 4), text |-> normal,
         ha |-> IF XIsNonNegative(normal) THEN "left" ELSE "right"]

Diagrams == {"CIE 1931", "CIE 1960 UCS", "CIE 1976 UCS"}

labels_of(d) ==
    IF d = "CIE 1931" THEN labels_1931
    ELSE IF d = "CIE 1960 UCS" THEN labels_1960 ELSE labels_1976

label_of(d, ws, cs, label) ==
    IF d = "CIE 1931" THEN label_1931(ws, cs, label)
    ELSE IF d = "CIE 1960 UCS" THEN label_1960(ws, cs, label)
    ELSE label_1976(ws, cs, label)

\* "for label in labels": the loop stops at the first label that is not a key
\* of the mapping, where unpacking the None that .get returns raises TypeError.
label_loop(d, ws, cs) ==
    LET labels == labels_of(d)
        absent == {i \in 1..Len(labels) : DictGet(ws, cs, labels[i]) = "None"}
        stop   == IF absent = {} THEN Len(labels) + 1
                  ELSE CHOOSE i \in absent : \A j \in absent : i <= j
    IN  [placed |-> [i \in 1..stop - 1 |-> label_of(d, ws, cs, labels[i])],
         error  |-> IF absent = {} THEN "none" ELSE "TypeError"]

DEFAULT_FIGURE_SIZE == <<14, 7>>

-----------------------------------------------------------------------------
(* Python values and dictionaries.  Lengths are in thousandths of a unit.  *)

None == [t |-> "None"]
Bool(b) == [t |-> "bool", v |-> b]
Str(pieces) == [t |-> "str", v |-> pieces]
Num(n) == [t |-> "num", v |-> n]
List(xs) == [t |-> "list", v |-> xs]

IsNone(x) == x.t = "None"

\* The truth value Python gives x in "x and f()" and "if x:".
Truthy(x) ==
    CASE x.t = "None" -> FALSE
      [] x.t = "bool" -> x.v
      [] x.t = "num"  -> x.v # 0
      [] OTHER        -> Len(x.v) > 0

EmptyDict == [k \in {} |-> None]

\* d.update(e) / dict(d, **e): the entries of e replace those of d.
Update(d, e) ==
    [k \in (DOMAIN d) \cup (DOMAIN e) |-> IF k \in DOMAIN e THEN e[k] ELSE d[k]]

\* d.get(k)
Get(d, k) == IF k \in DOMAIN d THEN d[k] ELSE None

-----------------------------------------------------------------------------
(* What a call does: the sequence of calls it issues, in order, then       *)
(* either the value it returns or the error it raises.                     *)

Ev(op, by, args) == [op |-> op, by |-> by, args |-> args]

NoError == [type |-> "none", name |-> "", keys |-> <<>>]
KeyError(name, keys) == [type |-> "KeyError", name |-> name, keys |-> keys]
OtherError(type) == [type |-> type, name |-> "", keys |-> <<>>]

Returns(log, ret) == [log |-> log, err |-> NoError, ret |-> ret]
Raises(log, err) == [log |-> log, err |-> err, ret |-> "raised"]
Raised(o) == o.err.type # "none"

\* "first; rest": rest does not run when first raises. Each of the two is
\* evaluated once, as the member of a singleton.
Then(first, rest) ==
    CHOOSE o \in UNION {IF Raised(f) THEN {f}
                        ELSE {[log |-> f.log \o r.log, err |-> r.err, ret |-> r.ret] :
                                 r \in {rest}} :
                        f \in {first}} : TRUE

\* "if not first: return" followed by rest: the bare return gives None.
IfNotReturn(first, rest) ==
    CHOOSE o \in UNION {IF Raised(f) THEN {f}
                        ELSE IF f.ret # "True"
                        THEN {[log |-> f.log, err |-> NoError, ret |-> "None"]}
                        ELSE {[log |-> f.log \o r.log, err |-> r.err, ret |-> r.ret] :
                                 r \in {rest}} :
                        f \in {first}} : TRUE

-----------------------------------------------------------------------------
(* The chart settings helpers.                                             *)

aspect_defaults ==
    [title |-> None, x_label |-> None, y_label |-> None,
     legend |-> Bool(FALSE), legend_location |-> Str(<<"upper right">>),
     x_ticker |-> Bool(FALSE), y_ticker |-> Bool(FALSE),
     x_ticker_locator |-> Str(<<"AutoMinorLocator(2)">>),
     y_ticker_locator |-> Str(<<"AutoMinorLocator(2)">>),
     no_ticks |-> Bool(FALSE), no_x_ticks |-> Bool(FALSE),
     no_y_ticks |-> Bool(FALSE), grid |-> Bool(FALSE),
     axis_grid |-> Str(<<"both">>), x_axis_line |-> Bool(FALSE),
     y_axis_line |-> Bool(FALSE), aspect |-> None]

\* "settings.key and f(arg)"
AndCall(settings, key, op, by, args) ==
    IF Truthy(settings[key]) THEN <<Ev(op, by, args)>> ELSE <<>>

\* aspect(**kwargs), called by "by".
aspect(by, kwargs) ==
    LET settings == Update(aspect_defaults, kwargs)
        A(key, op, args) == AndCall(settings, key, op, "aspect", args)
    IN  Returns(
            <<Ev("aspect", by, kwargs)>>
            \o A("title", "pylab.title", settings["title"])
            \o A("x_label", "pylab.xlabel", settings["x_label"])
            \o A("y_label", "pylab.ylabel", settings["y_label"])
            \o A("legend", "pylab.legend", settings["legend_location"])
            \o A("x_ticker", "xaxis.set_minor_locator", settings["x_ticker_locator"])
            \o A("y_ticker", "yaxis.set_minor_locator", settings["y_ticker_locator"])
            \o A("no_ticks", "set_xticks", List(<<>>))
            \o A("no_ticks", "set_yticks", List(<<>>))
            \o A("no_x_ticks", "set_xticks", List(<<>>))
            \o A("no_y_ticks", "set_yticks", List(<<>>))
            \o A("grid", "pylab.grid", settings["axis_grid"])
            \o A("x_axis_line", "pylab.axvline", Num(0))
            \o A("y_axis_line", "pylab.axhline", Num(0))
            \o A("aspect", "set_aspect", settings["aspect"]),
            "True")

bounding_box_defaults ==
    [bounding_box |-> None, x_tighten |-> Bool(FALSE), y_tighten |-> Bool(FALSE),
     limits |-> List(<<0, 1000, 0, 1000>>), margins |-> List(<<0, 0, 0, 0>>)]

\* A bounding_box that tests the tighten flags first and uses the explicit
\* box only for an axis that is not tightened.
bounding_box_tighten_first(by, kwargs) ==
    LET settings == Update(bounding_box_defaults, kwargs)
        limits   == settings["limits"].v
        margins  == settings["margins"].v
        box      == settings["bounding_box"].v
        given    == ~IsNone(settings["bounding_box"])
    IN  Returns(
            <<Ev("bounding_box", by, kwargs)>>
            \o (IF Truthy(settings["x_tighten"])
                THEN <<Ev("pylab.xlim", "bounding_box",
                          List(<<limits[1] + margins[1], limits[2] + margins[2]>>))>>
                ELSE IF given
                THEN <<Ev("pylab.xlim", "bounding_box", List(<<box[1], box[2]>>))>>
                ELSE <<>>)
            \o (IF Truthy(settings["y_tighten"])
                THEN <<Ev("pylab.ylim", "bounding_box",
                          List(<<limits[3] + margins[3], limits[4] + margins[4]>>))>>
                ELSE IF given
                THEN <<Ev("pylab.ylim", "bounding_box", List(<<box[3], box[4]>>))>>
                ELSE <<>>),
            "True")

\* bounding_box(**kwargs), called by "by".
bounding_box(by, kwargs) ==
    LET settings == Update(bounding_box_defaults, kwargs)
        limits   == settings["limits"].v
        margins  == settings["margins"].v
        box      == settings["bounding_box"].v
    IN  Returns(
            <<Ev("bounding_box", by, kwargs)>>
            \o (IF IsNone(settings["bounding_box"])
                THEN AndCall(settings, "x_tighten", "pylab.xlim", "bounding_box",
                             List(<<limits[1] + margins[1], limits[2] + margins[2]>>))
                     \o AndCall(settings, "y_tighten", "pylab.ylim", "bounding_box",
                                List(<<limits[3] + margins[3], limits[4] + margins[4]>>))
                ELSE <<Ev("pylab.xlim", "bounding_box", List(<<box[1], box[2]>>)),
                       Ev("pylab.ylim", "bounding_box", List(<<box[3], box[4]>>))>>),
            "True")

display_defaults == [standalone |-> Bool(TRUE), filename |-> None]

\* display with the test of the filename left out: always shows.
display_always_shows(by, kwargs) ==
    LET settings == Update([standalone |-> Bool(TRUE), filename |-> None], kwargs)
    IN  Returns(
            <<[op |-> "display", by |-> by, args |-> kwargs]>>
            \o (IF Truthy(settings["standalone"])
                THEN <<[op |-> "pylab.show", by |-> "display", args |-> None],
                       [op |-> "pylab.close", by |-> "display", args |-> None]>>
                ELSE <<>>),
            "True")

\* display ending with a bare "return".
display_returns_none(by, kwargs) ==
    LET settings == Update([standalone |-> Bool(TRUE), filename |-> None], kwargs)
    IN  Returns(
            <<Ev("display", by, kwargs)>>
            \o (IF Truthy(settings["standalone"])
                THEN (IF ~IsNone(settings["filename"])
                      THEN <<Ev("pylab.savefig", "display", kwargs)>>
                      ELSE <<Ev("pylab.show", "display", None)>>)
                     \o <<Ev("pylab.close", "display", None)>>
                ELSE <<>>),
            "None")

\* display(**kwargs), called by "by".
display(by, kwargs) ==
    LET settings == Update(display_defaults, kwargs)
    IN  Returns(
            <<Ev("display", by, kwargs)>>
            \o (IF Truthy(settings["standalone"])
                THEN (IF ~IsNone(settings["filename"])
                      THEN <<Ev("pylab.savefig", "display", kwargs)>>
                      ELSE <<Ev("pylab.show", "display", None)>>)
                     \o <<Ev("pylab.close", "display", None)>>
                ELSE <<>>),
            "True")

-----------------------------------------------------------------------------
(* Colour swatches.                                                        *)

\* colour_parameter(name, RGB, x, y0, y1)
colour_parameter(name, RGB, x, y0, y1) ==
    [name |-> name, RGB |-> RGB, x |-> x, y0 |-> y0, y1 |-> y1]

\* The arguments a definition names, taken out of the keywords given to it;
\* the others reach its **kwargs.
Named(defaults, given) ==
    [k \in DOMAIN defaults |-> IF k \in DOMAIN given THEN given[k] ELSE defaults[k]]

Rest(defaults, given) ==
    [k \in (DOMAIN given) \ (DOMAIN defaults) |-> given[k]]

\* min(...) and max(...) of a non-empty list of numbers.
Min(xs) == CHOOSE m \in {xs[i] : i \in DOMAIN xs} : \A i \in DOMAIN xs : m <= xs[i]
Max(xs) == CHOOSE m \in {xs[i] : i \in DOMAIN xs} : \A i \in DOMAIN xs : m >= xs[i]

OrElse(x, default) == IF IsNone(x) THEN default ELSE x.v

\* The quadrilaterals of colour_parameters_plot, for i = from .. len - 2.
RECURSIVE colour_parameters_fills(_, _)
colour_parameters_fills(cps, i) ==
    IF i + 1 >= Len(cps) THEN <<>>
    ELSE LET this == cps[i + 1]
             next == cps[i + 2]
             x0   == this.x
             x01  == next.x
             y0   == IF IsNone(this.y0) THEN Num(0) ELSE this.y0
             y1   == IF IsNone(this.y1) THEN Num(1000) ELSE this.y1
             y01  == IF IsNone(this.y0) THEN Num(0) ELSE next.y0
             y11  == IF IsNone(this.y1) THEN Num(1000) ELSE next.y1
         IN  <<Ev("pylab.fill", "colour_parameters_plot",
                  [x |-> <<x0, x01, x01, x0>>, y |-> <<y0, y01, y11, y1>>,
                   color |-> this.RGB])>>
             \o colour_parameters_fills(cps, i + 1)

\* colour_parameters_plot(colour_parameters, y0_plot=True, y1_plot=True, **kwargs)
colour_parameters_plot(by, colour_parameters, given) ==
    LET named  == Named([y0_plot |-> Bool(TRUE), y1_plot |-> Bool(TRUE)], given)
        kwargs == Rest([y0_plot |-> Bool(TRUE), y1_plot |-> Bool(TRUE)], given)
        me     == "colour_parameters_plot"
        cps    == colour_parameters
        all_y0 == \A i \in DOMAIN cps : ~IsNone(cps[i].y0)
        all_y1 == \A i \in DOMAIN cps : ~IsNone(cps[i].y1)
        lines  ==
            (IF all_y0 /\ Truthy(named["y0_plot"])
             THEN <<Ev("pylab.plot", me, [x |-> [i \in DOMAIN cps |-> cps[i].x],
                                          y |-> [i \in DOMAIN cps |-> cps[i].y0]])>>
             ELSE <<>>)
            \o (IF all_y1 /\ Truthy(named["y1_plot"])
                THEN <<Ev("pylab.plot", me, [x |-> [i \in DOMAIN cps |-> cps[i].x],
                                             y |-> [i \in DOMAIN cps |-> cps[i].y1]])>>
                ELSE <<>>)
        drawn  == <<Ev("call", by, me)>> \o colour_parameters_fills(cps, 0) \o lines
        y_limit_min0 == Min([i \in DOMAIN cps |-> OrElse(cps[i].y0, 0)])
        y_limit_max1 == Max([i \in DOMAIN cps |-> OrElse(cps[i].y1, 1000)])
        settings == Update(
            [x_label |-> Str(<<"Parameter">>), y_label |-> Str(<<"Colour">>),
             limits |-> List(<<Min([i \in DOMAIN cps |-> OrElse(cps[i].x, 0)]),
                               Max([i \in DOMAIN cps |-> OrElse(cps[i].x, 1000)]),
                               y_limit_min0, y_limit_max1>>)],
            kwargs)
    IN  IF Len(cps) = 0
        THEN Raises(drawn, OtherError("ValueError"))
        ELSE Then(Returns(drawn, "None"),
             Then(bounding_box(me, settings),
             Then(aspect(me, settings),
                  display(me, settings))))

multi_colour_plot_defaults ==
    [width |-> Num(1000), height |-> Num(1000), spacing |-> Num(0),
     across |-> Num(3), text_display |-> Bool(TRUE),
     text_size |-> Str(<<"large">>), text_offset |-> Num(75)]

\* A loop that never starts a new row: every swatch goes to the right of the
\* one before it.
RECURSIVE multi_colour_loop_one_row(_, _, _, _, _)
multi_colour_loop_one_row(cps, named, i, offsetX, offsetY) ==
    IF i >= Len(cps) THEN [log |-> <<>>, offsetY |-> offsetY]
    ELSE LET width   == named["width"].v
             height  == named["height"].v
             spacing == named["spacing"].v
             x0      == offsetX
             x1      == offsetX + width
             y0      == offsetY
             y1      == offsetY + height
             cp      == cps[i + 1]
             rest    == multi_colour_loop_one_row(cps, named, i + 1,
                                                  offsetX + width + spacing, offsetY)
         IN  [log |-> <<Ev("pylab.fill", "multi_colour_plot",
                           [x |-> <<x0, x1, x1, x0>>, y |-> <<y0, y0, y1, y1>>,
                            color |-> cp.RGB])>>
                      \o (IF ~IsNone(cp.name) /\ Truthy(named["text_display"])
                          THEN <<Ev("pylab.text", "multi_colour_plot",
                                    [x |-> x0 + named["text_offset"].v,
                                     y |-> y0 + named["text_offset"].v,
                                     s |-> cp.name])>>
                          ELSE <<>>)
                      \o rest.log,
              offsetY |-> rest.offsetY]

\* The loop of multi_colour_plot from swatch i (0-based) on, entered with the
\* offsets the iterations before it left; gives the calls and the last offsetY.
RECURSIVE multi_colour_loop(_, _, _, _, _)
multi_colour_loop(cps, named, i, offsetX, offsetY) ==
    IF i >= Len(cps) THEN [log |-> <<>>, offsetY |-> offsetY]
    ELSE LET width   == named["width"].v
             height  == named["height"].v
             spacing == named["spacing"].v
             across  == named["across"].v
             wrap    == i % across = 0 /\ i # 0
             oX      == IF wrap THEN 0 ELSE offsetX
             oY      == IF wrap THEN offsetY - (height + spacing) ELSE offsetY
             x0      == oX
             x1      == oX + width
             y0      == oY
             y1      == oY + height
             cp      == cps[i + 1]
             rest    == multi_colour_loop(cps, named, i + 1, oX + width + spacing, oY)
         IN  [log |-> <<Ev("pylab.fill", "multi_colour_plot",
                           [x |-> <<x0, x1, x1, x0>>, y |-> <<y0, y0, y1, y1>>,
                            color |-> cp.RGB])>>
                      \o (IF ~IsNone(cp.name) /\ Truthy(named["text_display"])
                          THEN <<Ev("pylab.text", "multi_colour_plot",
                                    [x |-> x0 + named["text_offset"].v,
                                     y |-> y0 + named["text_offset"].v,
                                     s |-> cp.name])>>
                          ELSE <<>>)
                      \o rest.log,
              offsetY |-> rest.offsetY]

\* multi_colour_plot(colour_parameters, width=1., height=1., spacing=0.,
\*                   across=3, text_display=True, text_size='large',
\*                   text_offset=0.075, **kwargs)
multi_colour_plot(by, colour_parameters, given) ==
    LET named   == Named(multi_colour_plot_defaults, given)
        kwargs  == Rest(multi_colour_plot_defaults, given)
        me      == "multi_colour_plot"
        width   == named["width"].v
        height  == named["height"].v
        spacing == named["spacing"].v
        loop    == multi_colour_loop(colour_parameters, named, 0, 0, 0)
        count   == Min(<<Len(colour_parameters), named["across"].v>>)
        x_limit_max == count * width + count * spacing - spacing
        settings == Update(
            [x_tighten |-> Bool(TRUE), y_tighten |-> Bool(TRUE),
             no_ticks |-> Bool(TRUE),
             limits |-> List(<<0, x_limit_max, loop.offsetY, height>>),
             aspect |-> Str(<<"equal">>)],
            kwargs)
    IN  Then(Returns(<<Ev("call", by, me)>> \o loop.log, "None"),
        Then(bounding_box(me, settings),
        Then(aspect(me, settings),
             display(me, settings))))

\* single_colour_plot(colour_parameter, **kwargs)
single_colour_plot(by, cp, kwargs) ==
    LET inner == multi_colour_plot("single_colour_plot", <<cp>>, kwargs)
    IN  [inner EXCEPT !.log = <<Ev("call", by, "single_colour_plot")>> \o @]

-----------------------------------------------------------------------------
(* The factory tables, reduced to a few keys each, and the lookups.        *)

\* A name that is a key of no table.
Unknown == "Unknown"

\* Every name of the model, in the order Python sorts strings.
NameOrder ==
    <<"A", "ACES RGB", "C", "CIE 1931 2 Degree Standard Observer",
      "CIE 1964 10 Degree Standard Observer", "ColorChecker 1976",
      "ColorChecker 2005", "D65", "E", "Lightness 1976",
      "Lightness Wyszecki 1964", "Munsell Value ASTM D1535-08",
      "Munsell Value McCamy 1987", "Pointer Gamut", "Rec. 709", "Unknown",
      "sRGB">>

\* sorted(keys), in the reverse order.
sorted_descending(keys) ==
    LET n == Cardinality(keys)
    IN  CHOOSE s \in [1..n -> keys] :
            \A i, j \in 1..n : i < j =>
                \E a, b \in 1..Len(NameOrder) :
                    NameOrder[a] = s[i] /\ NameOrder[b] = s[j] /\ a > b

\* sorted(keys)
sorted(keys) ==
    LET n == Cardinality(keys)
        rank(k) == CHOOSE a \in 1..Len(NameOrder) : NameOrder[a] = k
    IN  CHOOSE s \in [1..n -> keys] :
            \A i, j \in 1..n : i < j => rank(s[i]) < rank(s[j])

CMFS_KEYS ==
    {"CIE 1931 2 Degree Standard Observer", "CIE 1964 10 Degree Standard Observer"}
ILLUMINANTS_RELATIVE_SPDS_KEYS == {"A", "C", "D65"}
ILLUMINANTS_KEYS == {"A", "C", "D65", "E"}
RGB_COLOURSPACES_KEYS == {"ACES RGB", "Rec. 709", "sRGB"}
COLOURCHECKERS_KEYS == {"ColorChecker 1976", "ColorChecker 2005"}
MUNSELL_VALUE_FUNCTIONS_KEYS ==
    {"Munsell Value ASTM D1535-08", "Munsell Value McCamy 1987"}
LIGHTNESS_FUNCTIONS_KEYS == {"Lightness 1976", "Lightness Wyszecki 1964"}

\* table.get(name), then "if ... is None: raise KeyError(...)": the error of
\* the lookup, NoError when the name is a key.
lookup_error(keys, name) ==
    IF name \in keys THEN NoError ELSE KeyError(name, sorted(keys))

\* _get_cmfs(cmfs): for a name that is no key, the message of the KeyError
\* reads "cmfs.CMFS.keys()" with cmfs None, which raises AttributeError.
_get_cmfs_error(name) ==
    IF name \in CMFS_KEYS THEN NoError ELSE OtherError("AttributeError")

\* _get_illuminant(illuminant)
_get_illuminant_error(name) == lookup_error(ILLUMINANTS_RELATIVE_SPDS_KEYS, name)

\* _get_RGB_colourspace(colourspace)
_get_RGB_colourspace_error(name) == lookup_error(RGB_COLOURSPACES_KEYS, name)

\* A lookup as a step of a definition: nothing is issued, and it may raise.
Lookup(err) == [log |-> <<>>, err |-> err, ret |-> IF err.type = "none" THEN "None" ELSE "raised"]

-----------------------------------------------------------------------------
(* colour_checker_plot, as plots.py defines it.                            *)

\* The swatch list built from the n entries of the colour checker data.
checker_parameters(n) ==
    [i \in 1..n |-> colour_parameter(Str(<<"Swatch", i>>), <<"sRGB", i>>,
                                     None, None, None)]

\* a / b for two integers, in thousandths and as the numerator of a fraction
\* over b.  A module that does not import division from __future__ floors
\* the quotient when it runs under Python 2.
Divide(floored, a, b) == IF floored THEN (a \div b) * b * 1000 ELSE a * 1000

\* colour_checker_plot(colour_checker, **kwargs) run by the given version of
\* Python, the table entry holding n swatches.
colour_checker_plot(by, python, colour_checker, n, kwargs) ==
    LET me       == "colour_checker_plot"
        name     == colour_checker
        width    == 1000
        spacing  == 250
        across   == 6
        colour_parameters == checker_parameters(n)
        settings == Update(
            [standalone |-> Bool(FALSE), width |-> Num(width),
             height |-> Num(1000), spacing |-> Num(spacing),
             across |-> Num(across),
             margins |-> List(<<-125, 125, -500, 125>>)],
            kwargs)
        text_x   == width * (across \div 2) + (across * (spacing \div 2))
                    - spacing \div 2
        text_y   == [num |-> -(Divide(python = 2, Len(colour_parameters), across)
                               + (spacing \div 2) * across),
                     den |-> across]
        final    == Update(settings,
                           [title |-> Str(<<name>>), facecolor |-> Str(<<"0.1">>),
                            edgecolor |-> None, standalone |-> Bool(TRUE)])
    IN  Then(Returns(<<Ev("call", by, me)>>, "None"),
        Then(Lookup(lookup_error(COLOURCHECKERS_KEYS, name)),
        Then(Returns(<<Ev("set_facecolor", me, Str(<<"0.1">>))>>, "None"),
        Then(multi_colour_plot(me, colour_parameters, settings),
        Then(Returns(<<Ev("pylab.text", me,
                          [x |-> text_x, y |-> text_y,
                           s |-> Str(<<name, " - ", "sRGB",
                                       " - Colour Rendition Chart">>)])>>, "None"),
        Then(bounding_box(me, final),
        Then(aspect(me, final),
             display(me, final))))))))

\* colour_checker_plot(colour_checker, **kwargs) as characterization.py
\* defines it, with "from __future__ import division".
characterization_colour_checker_plot(by, colour_checker, n, kwargs) ==
    LET me       == "colour_checker_plot"
        name     == colour_checker
        width    == 1000
        height   == 1000
        spacing  == 250
        across   == 6
        colour_parameters == checker_parameters(n)
        settings == Update(
            [standalone |-> Bool(FALSE), width |-> Num(width),
             height |-> Num(height), spacing |-> Num(spacing),
             across |-> Num(across),
             margins |-> List(<<-125, 125, -500, 125>>)],
            kwargs)
        text_x   == width * (across \div 2) + (across * (spacing \div 2))
                    - spacing \div 2
        text_y   == [num |-> -(Divide(FALSE, Len(colour_parameters), across)
                               + (spacing \div 2) * across),
                     den |-> across]
        final    == Update(settings,
                           [title |-> Str(<<name>>), facecolor |-> Str(<<"0.1">>),
                            edgecolor |-> None, standalone |-> Bool(TRUE)])
    IN  Then(Returns(<<Ev("call", by, me)>>, "None"),
        Then(Lookup(lookup_error(COLOURCHECKERS_KEYS, name)),
        Then(Returns(<<Ev("set_facecolor", me, Str(<<"0.1">>))>>, "None"),
        Then(multi_colour_plot(me, colour_parameters, settings),
        Then(Returns(<<Ev("pylab.text", me,
                          [x |-> text_x, y |-> text_y,
                           s |-> Str(<<name, " - ", "sRGB",
                                       " - Colour Rendition Chart">>)])>>, "None"),
        Then(bounding_box(me, final),
        Then(aspect(me, final),
             display(me, final))))))))

-----------------------------------------------------------------------------
(* Spectral data: the colour matching functions and the illuminants'       *)
(* relative spectral power distributions of the reduced tables.            *)

DefaultCmfs == "CIE 1931 2 Degree Standard Observer"

\* CMFS.get(name) for a key: the sampled wavelengths, the three matching
\* functions, and the chromaticity coordinates (in thirds) that XYZ_to_xy,
\* UCS_to_uv and Luv_to_uv give for each sample.
CMFS_get(name) ==
    IF name = "CIE 1931 2 Degree Standard Observer"
    THEN [name |-> name, wavelengths |-> <<390, 460, 620, 700, 830>>,
          bars |-> [x |-> <<1, 30, 85, 1, 0>>, y |-> <<0, 6, 38, 0, 0>>,
                    z |-> <<2, 167, 0, 0, 0>>],
          xy   |-> <<<<1, 0>>, <<0, 0>>, <<2, 1>>, <<3, 0>>, <<3, 1>>>>,
          uv   |-> <<<<1, 0>>, <<0, 1>>, <<1, 1>>, <<2, 1>>, <<2, 2>>>>,
          uv76 |-> <<<<1, 0>>, <<0, 1>>, <<1, 2>>, <<2, 2>>, <<2, 1>>>>]
    ELSE [name |-> name, wavelengths |-> <<390, 460, 620, 700, 830>>,
          bars |-> [x |-> <<2, 30, 86, 1, 0>>, y |-> <<0, 9, 40, 0, 0>>,
                    z |-> <<1, 199, 0, 0, 0>>],
          xy   |-> <<<<1, 0>>, <<0, 1>>, <<2, 1>>, <<2, 0>>, <<3, 0>>>>,
          uv   |-> <<<<1, 0>>, <<0, 0>>, <<1, 1>>, <<2, 0>>, <<2, 1>>>>,
          uv76 |-> <<<<1, 0>>, <<0, 0>>, <<1, 2>>, <<2, 1>>, <<2, 0>>>>]

\* ILLUMINANTS_RELATIVE_SPDS.get(name) for a key, as the values the spectral
\* power distribution takes at the wavelengths of the tables.
ILLUMINANTS_RELATIVE_SPDS_get(name) ==
    [name |-> name,
     values |-> IF name = "A" THEN <<12, 37, 147, 198, 260>>
                ELSE IF name = "C" THEN <<47, 123, 88, 76, 50>>
                ELSE <<55, 118, 88, 72, 60>>]

SPDS == {ILLUMINANTS_RELATIVE_SPDS_get(n) : n \in ILLUMINANTS_RELATIVE_SPDS_KEYS}

\* single_spd_plot(spd, cmfs, **kwargs)
single_spd_plot(by, spd, cmfs, kwargs) ==
    LET me    == "single_spd_plot"
        table == CMFS_get(cmfs)
        ws == table.wavelengths
        settings == Update(
            [title |-> Str(<<"\"", spd.name, "\" - ", table.name>>),
             x_label |-> Str(<<"Wavelength (nm)">>),
             y_label |-> Str(<<"Spectral Power Distribution">>),
             x_tighten |-> Bool(TRUE), x_ticker |-> Bool(TRUE),
             y_ticker |-> Bool(TRUE)],
            kwargs)
    IN  Then(Returns(<<Ev("call", by, me)>>, "None"),
        Then(Lookup(_get_cmfs_error(cmfs)),
             colour_parameters_plot(me,
                 [i \in DOMAIN ws |->
                     colour_parameter(None, <<"sRGB", ws[i]>>,
                                      Num(ws[i]), None,
                                      Num(spd.values[i]))],
                 settings)))

\* The loop of multi_spd_plot over the spectral power distributions.
multi_spd_loop(spds) ==
    [i \in 1..2 * Len(spds) |->
        IF i % 2 = 1
        THEN Ev("pyplot.rc", "multi_spd_plot", Str(<<"axes.color_cycle">>))
        ELSE Ev("pylab.plot", "multi_spd_plot",
                [label |-> spds[i \div 2].name, y |-> spds[i \div 2].values])]

\* multi_spd_plot(spds, cmfs, **kwargs)
multi_spd_plot(by, spds, cmfs, kwargs) ==
    LET me == "multi_spd_plot"
        ws == CMFS_get(DefaultCmfs).wavelengths
        settings == Update(
            [x_label |-> Str(<<"Wavelength (nm)">>),
             y_label |-> Str(<<"Spectral Power Distribution">>),
             x_tighten |-> Bool(TRUE), legend |-> Bool(TRUE),
             legend_location |-> Str(<<"upper left">>),
             x_ticker |-> Bool(TRUE), y_ticker |-> Bool(TRUE),
             limits |-> List(<<Min(ws), Max(ws),
                               Min([i \in DOMAIN spds |-> Min(spds[i].values)]),
                               Max([i \in DOMAIN spds |-> Max(spds[i].values)])>>)],
            kwargs)
    IN  Then(Returns(<<Ev("call", by, me)>>, "None"),
        Then(Lookup(_get_cmfs_error(cmfs)),
        Then(Returns(multi_spd_loop(spds), "None"),
             IF Len(spds) = 0 THEN Raises(<<>>, OtherError("ValueError"))
             ELSE Then(bounding_box(me, settings),
                  Then(aspect(me, settings),
                       display(me, settings))))))

\* A loop that halves the base colour of the axis i times for entry i,
\* carrying nothing over from the entry before.
RECURSIVE multi_cmfs_loop_from_base(_, _, _, _, _)
multi_cmfs_loop_from_base(python, axis, cmfss, i, halvings) ==
    IF i >= Len(cmfss) THEN Returns(<<>>, "None")
    ELSE Then(Lookup(_get_cmfs_error(cmfss[i + 1])),
         Then(Lookup(IF python = 2 THEN NoError ELSE OtherError("NameError")),
         Then(Returns(<<Ev("pylab.plot", "multi_cmfs_plot",
                           [axis |-> axis, halvings |-> i,
                            label |-> cmfss[i + 1],
                            y |-> CMFS_get(cmfss[i + 1]).bars[axis]])>>, "None"),
              multi_cmfs_loop_from_base(python, axis, cmfss, i + 1, i))))

\* The body of "for i, cmfs in enumerate(cmfss)" of multi_cmfs_plot for one
\* axis, from entry i (0-based) on; halvings is the number of times the
\* colour of the axis has been halved so far.  reduce is a builtin of
\* Python 2 only and plots.py does not import it: under Python 3 the first
\* entry raises NameError.
RECURSIVE multi_cmfs_loop(_, _, _, _, _)
multi_cmfs_loop(python, axis, cmfss, i, halvings) ==
    IF i >= Len(cmfss) THEN Returns(<<>>, "None")
    ELSE Then(Lookup(_get_cmfs_error(cmfss[i + 1])),
         Then(Lookup(IF python = 2 THEN NoError ELSE OtherError("NameError")),
         Then(Returns(<<Ev("pylab.plot", "multi_cmfs_plot",
                           [axis |-> axis, halvings |-> halvings + i,
                            label |-> cmfss[i + 1],
                            y |-> CMFS_get(cmfss[i + 1]).bars[axis]])>>, "None"),
              multi_cmfs_loop(python, axis, cmfss, i + 1, halvings + i))))

\* multi_cmfs_plot(cmfss, **kwargs)
multi_cmfs_plot(by, python, cmfss, kwargs) ==
    LET me == "multi_cmfs_plot"
        tables == [i \in DOMAIN cmfss |-> CMFS_get(cmfss[i])]
        lows   == [i \in DOMAIN cmfss |->
                      Min(<<Min(tables[i].bars["x"]), Min(tables[i].bars["y"]),
                            Min(tables[i].bars["z"])>>)]
        highs  == [i \in DOMAIN cmfss |->
                      Max(<<Max(tables[i].bars["x"]), Max(tables[i].bars["y"]),
                            Max(tables[i].bars["z"])>>)]
        settings == Update(
            [title |-> Str(<<cmfss, " - Colour Matching Functions">>),
             x_label |-> Str(<<"Wavelength (nm)">>),
             y_label |-> Str(<<"Tristimulus Values">>),
             x_tighten |-> Bool(TRUE), legend |-> Bool(TRUE),
             legend_location |-> Str(<<"upper right">>),
             x_ticker |-> Bool(TRUE), y_ticker |-> Bool(TRUE),
             grid |-> Bool(TRUE), y_axis_line |-> Bool(TRUE),
             limits |-> List(<<Min([i \in DOMAIN cmfss |-> Min(tables[i].wavelengths)]),
                               Max([i \in DOMAIN cmfss |-> Max(tables[i].wavelengths)]),
                               Min(lows), Max(highs)>>)],
            kwargs)
    IN  Then(Returns(<<Ev("call", by, me)>>, "None"),
        Then(multi_cmfs_loop(python, "x", cmfss, 0, 0),
        Then(multi_cmfs_loop(python, "y", cmfss, 0, 0),
        Then(multi_cmfs_loop(python, "z", cmfss, 0, 0),
             IF Len(cmfss) = 0 THEN Raises(<<>>, OtherError("ValueError"))
             ELSE Then(bounding_box(me, settings),
                  Then(aspect(me, settings),
                       display(me, settings)))))))

\* single_cmfs_plot(cmfs, **kwargs)
single_cmfs_plot(by, python, cmfs, kwargs) ==
    LET settings == Update(
            [title |-> Str(<<"\"", cmfs, "\" - Colour Matching Functions">>)],
            kwargs)
    IN  Then(Returns(<<Ev("call", by, "single_cmfs_plot")>>, "None"),
             multi_cmfs_plot("single_cmfs_plot", python, <<cmfs>>, settings))

\* single_illuminant_relative_spd_plot(illuminant, cmfs, **kwargs)
single_illuminant_relative_spd_plot(by, illuminant, cmfs, kwargs) ==
    LET me == "single_illuminant_relative_spd_plot"
        settings == Update(
            [title |-> Str(<<"Illuminant \"", illuminant, "\" - ", cmfs>>),
             y_label |-> Str(<<"Relative Spectral Power Distribution">>)],
            kwargs)
    IN  Then(Returns(<<Ev("call", by, me)>>, "None"),
        Then(Lookup(_get_illuminant_error(illuminant)),
        Then(Lookup(_get_cmfs_error(cmfs)),
             single_spd_plot(me, ILLUMINANTS_RELATIVE_SPDS_get(illuminant),
                             DefaultCmfs, settings))))

\* The loop over the illuminants with no lookup made.
illuminants_lookups_skipped(illuminants, i) ==
    [log |-> <<>>, err |-> NoError, ret |-> "None"]

\* "for illuminant in illuminants: spds.append(_get_illuminant(illuminant))"
RECURSIVE illuminants_lookups(_, _)
illuminants_lookups(illuminants, i) ==
    IF i > Len(illuminants) THEN Returns(<<>>, "None")
    ELSE Then(Lookup(_get_illuminant_error(illuminants[i])),
              illuminants_lookups(illuminants, i + 1))

\* multi_illuminants_relative_spd_plot(illuminants, **kwargs)
multi_illuminants_relative_spd_plot(by, illuminants, kwargs) ==
    LET me == "multi_illuminants_relative_spd_plot"
        settings == Update(
            [title |-> Str(<<illuminants,
                             " - Illuminants Relative Spectral Power Distribution">>),
             y_label |-> Str(<<"Relative Spectral Power Distribution">>)],
            kwargs)
    IN  Then(Returns(<<Ev("call", by, me)>>, "None"),
        Then(illuminants_lookups(illuminants, 1),
             multi_spd_plot(me,
                 [i \in DOMAIN illuminants |->
                     ILLUMINANTS_RELATIVE_SPDS_get(illuminants[i])],
                 DefaultCmfs, settings)))

\* visible_spectrum_plot(cmfs, **kwargs)
visible_spectrum_plot(by, cmfs, kwargs) ==
    LET me == "visible_spectrum_plot"
        ws == CMFS_get(cmfs).wavelengths
        settings == Update(
            [title |-> Str(<<"The Visible Spectrum - ", cmfs>>),
             x_label |-> Str(<<"Wavelength (nm)">>),
             x_tighten |-> Bool(TRUE)],
            kwargs)
    IN  Then(Returns(<<Ev("call", by, me)>>, "None"),
        Then(Lookup(_get_cmfs_error(cmfs)),
             colour_parameters_plot(me,
                 [i \in DOMAIN ws |->
                     colour_parameter(None, <<"sRGB", ws[i]>>,
                                      Num(ws[i]), None, None)],
                 settings)))

-----------------------------------------------------------------------------
(* The figure_size decorator.                                              *)

\* A wrapper that restores the default size after the call instead of in a
\* "finally" clause: a call that raises leaves the size it has set.
figure_size_wrapper_without_finally(size, kwargs, body) ==
    [log |-> <<Ev("rcParams", "figure_size",
                  IF ~IsNone(Get(kwargs, "figure_size"))
                  THEN Get(kwargs, "figure_size").v ELSE size)>>
             \o body.log
             \o (IF body.err.type = "none"
                 THEN <<Ev("rcParams", "figure_size", DEFAULT_FIGURE_SIZE)>>
                 ELSE <<>>),
     err |-> body.err, ret |-> body.ret]

\* A wrapper that sets the size and leaves it set when the call is over.
figure_size_wrapper_keeps_size(size, kwargs, body) ==
    [log |-> <<Ev("rcParams", "figure_size",
                  IF ~IsNone(Get(kwargs, "figure_size"))
                  THEN Get(kwargs, "figure_size").v ELSE size)>>
             \o body.log,
     err |-> body.err, ret |-> body.ret]

\* figure_size(size)(object)(*args, **kwargs), body being what the call
\* object(*args, **kwargs) does.
figure_size_wrapper(size, kwargs, body) ==
    [log |-> <<Ev("rcParams", "figure_size",
                  IF ~IsNone(Get(kwargs, "figure_size"))
                  THEN Get(kwargs, "figure_size").v ELSE size)>>
             \o body.log
             \o <<Ev("rcParams", "figure_size", DEFAULT_FIGURE_SIZE)>>,
     err |-> body.err, ret |-> body.ret]

\* The value of rcParams['figure.figsize'] after the calls of log.
RECURSIVE FigsizeAfter(_, _)
FigsizeAfter(size, log) ==
    IF log = <<>> THEN size
    ELSE FigsizeAfter(IF Head(log).op = "rcParams" THEN Head(log).args ELSE size,
                      Tail(log))

-----------------------------------------------------------------------------
(* The chromaticity diagram plots.                                         *)

\* A colours plot that draws its markers after the settings are applied.
diagram_colours_plot_scatter_last(me, by, cmfs, kwargs) ==
    LET settings == Update(
            [no_ticks |-> Bool(TRUE),
             bounding_box |-> List(<<0, 1000, 0, 1000>>),
             bbox_inches |-> Str(<<"tight">>), pad_inches |-> Num(0)],
            kwargs)
    IN  figure_size_wrapper(<<32, 32>>, kwargs,
            Then(Returns(<<Ev("call", by, me)>>, "None"),
            Then(Lookup(_get_cmfs_error(cmfs)),
            Then(bounding_box(me, settings),
            Then(aspect(me, settings),
            Then(Returns(<<Ev("pylab.scatter", me, cmfs)>>, "None"),
                 display(me, settings)))))))

\* The three CIE_*_chromaticity_diagram_colours_plot definitions: they differ
\* in the conversions applied to the table and to the grid of markers.
diagram_colours_plot(me, by, cmfs, kwargs) ==
    LET settings == Update(
            [no_ticks |-> Bool(TRUE),
             bounding_box |-> List(<<0, 1000, 0, 1000>>),
             bbox_inches |-> Str(<<"tight">>), pad_inches |-> Num(0)],
            kwargs)
    IN  figure_size_wrapper(<<32, 32>>, kwargs,
            Then(Returns(<<Ev("call", by, me)>>, "None"),
            Then(Lookup(_get_cmfs_error(cmfs)),
            Then(Returns(<<Ev("pylab.scatter", me, cmfs)>>, "None"),
            Then(bounding_box(me, settings),
            Then(aspect(me, settings),
                 display(me, settings)))))))

CIE_1931_chromaticity_diagram_colours_plot(by, cmfs, kwargs) ==
    diagram_colours_plot("CIE_1931_chromaticity_diagram_colours_plot", by, cmfs, kwargs)

CIE_1960_UCS_chromaticity_diagram_colours_plot(by, cmfs, kwargs) ==
    diagram_colours_plot("CIE_1960_UCS_chromaticity_diagram_colours_plot", by, cmfs,
                         kwargs)

CIE_1976_UCS_chromaticity_diagram_colours_plot(by, cmfs, kwargs) ==
    diagram_colours_plot("CIE_1976_UCS_chromaticity_diagram_colours_plot", by, cmfs,
                         kwargs)

\* A boundary left open: the locus without the closing segment.
boundary_open(me, cs) ==
    <<Ev("pylab.plot", me, [points |-> cs])>>

\* The boundary: the locus joined in table order, then the closing segment
\* from the last coordinate to the first.
boundary(me, cs) ==
    <<Ev("pylab.plot", me, [points |-> cs]),
      Ev("pylab.plot", me, [points |-> <<PyIndex(cs, -1), PyIndex(cs, 0)>>])>>

\* What the label loop of diagram d draws: per label the marker, the tick and
\* the text; then the error that ended the loop, if any.
labels_drawn(me, d, ws, cs) ==
    LET log(placed) ==
            [i \in 1..3 * Len(placed) |->
                LET p == placed[(i + 2) \div 3]
                IN  IF i % 3 = 1
                    THEN Ev("pylab.plot", me, [marker |-> p.point])
                    ELSE IF i % 3 = 2
                    THEN Ev("pylab.plot", me, [from |-> p.point, to |-> p.tick])
                    ELSE Ev("pylab.text", me,
                            [at |-> p.point, offset |-> p.text,
                             s |-> p.label, ha |-> p.ha])]
    IN  CHOOSE o \in {IF loop.error = "none" THEN Returns(log(loop.placed), "None")
                      ELSE Raises(log(loop.placed), OtherError(loop.error)) :
                      loop \in {label_loop(d, ws, cs)}} : TRUE

\* The default settings of the three CIE_*_chromaticity_diagram_plot
\* definitions.
diagram_defaults(d, cmfs) ==
    IF d = "CIE 1931"
    THEN [title |-> Str(<<"CIE 1931 Chromaticity Diagram - ", cmfs>>),
          x_label |-> Str(<<"CIE x">>), y_label |-> Str(<<"CIE y">>),
          x_ticker |-> Bool(TRUE), y_ticker |-> Bool(TRUE), grid |-> Bool(TRUE),
          bounding_box |-> List(<<-100, 900, -100, 900>>),
          bbox_inches |-> Str(<<"tight">>), pad_inches |-> Num(0)]
    ELSE IF d = "CIE 1960 UCS"
    THEN [title |-> Str(<<"CIE 1960 UCS Chromaticity Diagram - ", cmfs>>),
          x_label |-> Str(<<"CIE u">>), y_label |-> Str(<<"CIE v">>),
          x_ticker |-> Bool(TRUE), y_ticker |-> Bool(TRUE), grid |-> Bool(TRUE),
          bounding_box |-> List(<<-75, 675, -150, 600>>),
          bbox_inches |-> Str(<<"tight">>), pad_inches |-> Num(0)]
    ELSE [title |-> Str(<<"CIE 1976 UCS Chromaticity Diagram - ", cmfs>>),
          x_label |-> Str(<<"CIE u\"">>), y_label |-> Str(<<"CIE v\"">>),
          x_ticker |-> Bool(TRUE), y_ticker |-> Bool(TRUE), grid |-> Bool(TRUE),
          bounding_box |-> List(<<-100, 700, -100, 700>>),
          bbox_inches |-> Str(<<"tight">>), pad_inches |-> Num(0)]

\* The body shared by the three CIE_*_chromaticity_diagram_plot definitions,
\* given the diagram, the wavelengths ws of the table of cmfs and the
\* coordinates cs that the diagram's conversion gives for them.
diagram_plot(me, by, d, cmfs, ws, cs, kwargs) ==
    LET settings == Update(diagram_defaults(d, cmfs), kwargs)
    IN  figure_size_wrapper(<<8, 8>>, kwargs,
            Then(Returns(<<Ev("call", by, me)>>, "None"),
            Then(Lookup(_get_cmfs_error(cmfs)),
            Then(Returns(<<Ev("pylab.imshow", me, <<d, cmfs>>)>>
                         \o boundary(me, cs), "None"),
            Then(labels_drawn(me, d, ws, cs),
            Then(bounding_box(me, settings),
            Then(aspect(me, settings),
                 display(me, settings))))))))

\* CIE_1931_chromaticity_diagram_plot(cmfs, **kwargs)
CIE_1931_chromaticity_diagram_plot(by, cmfs, kwargs) ==
    diagram_plot("CIE_1931_chromaticity_diagram_plot", by, "CIE 1931", cmfs,
        CMFS_get(cmfs).wavelengths, CMFS_get(cmfs).xy, kwargs)

\* CIE_1960_UCS_chromaticity_diagram_plot(cmfs, **kwargs)
CIE_1960_UCS_chromaticity_diagram_plot(by, cmfs, kwargs) ==
    diagram_plot("CIE_1960_UCS_chromaticity_diagram_plot", by, "CIE 1960 UCS", cmfs,
        CMFS_get(cmfs).wavelengths, CMFS_get(cmfs).uv, kwargs)

\* CIE_1976_UCS_chromaticity_diagram_plot(cmfs, **kwargs)
CIE_1976_UCS_chromaticity_diagram_plot(by, cmfs, kwargs) ==
    diagram_plot("CIE_1976_UCS_chromaticity_diagram_plot", by, "CIE 1976 UCS", cmfs,
        CMFS_get(cmfs).wavelengths, CMFS_get(cmfs).uv76, kwargs)

-----------------------------------------------------------------------------
(* The plots drawn over a chromaticity diagram.                            *)

\* RGB_COLOURSPACES.get(name) for a key: primaries and whitepoint, in
\* thousandths.
RGB_COLOURSPACES_get(name) ==
    IF name = "ACES RGB"
    THEN [name |-> name, primaries |-> <<<<735, 265>>, <<0, 1000>>, <<0, -77>>>>,
          whitepoint |-> <<322, 338>>]
    ELSE [name |-> name, primaries |-> <<<<640, 330>>, <<300, 600>>, <<150, 60>>>>,
          whitepoint |-> <<313, 329>>]

POINTER_GAMUT_DATA == <<<<508, 226>>, <<538, 258>>, <<588, 280>>>>

\* The loop of colourspaces_CIE_1931_chromaticity_diagram_plot from entry i
\* on; the random colour of each colourspace is left out.
RECURSIVE colourspaces_loop(_, _)
colourspaces_loop(colourspaces, i) ==
    LET me == "colourspaces_CIE_1931_chromaticity_diagram_plot"
        cs == RGB_COLOURSPACES_get(colourspaces[i])
        P  == cs.primaries
        W  == cs.whitepoint
    IN  IF i > Len(colourspaces) THEN Returns(<<>>, "None")
        ELSE IF colourspaces[i] = "Pointer Gamut"
        THEN Then(Returns(<<Ev("pylab.plot", me, [points |-> POINTER_GAMUT_DATA,
                                                   label |-> "Pointer Gamut"]),
                            Ev("pylab.plot", me,
                               [points |-> <<PyIndex(POINTER_GAMUT_DATA, -1),
                                             PyIndex(POINTER_GAMUT_DATA, 0)>>])>>,
                          "None"),
                  colourspaces_loop(colourspaces, i + 1))
        ELSE Then(Lookup(_get_RGB_colourspace_error(colourspaces[i])),
             Then(Returns(<<Ev("pylab.plot", me, [points |-> <<W, W>>,
                                                   label |-> cs.name]),
                            Ev("pylab.plot", me, [points |-> <<W, W>>]),
                            Ev("pylab.plot", me, [points |-> <<P[1], P[2]>>]),
                            Ev("pylab.plot", me, [points |-> <<P[2], P[3]>>]),
                            Ev("pylab.plot", me, [points |-> <<P[3], P[1]>>])>>,
                          "None"),
                  colourspaces_loop(colourspaces, i + 1)))

\* Extents in which only the last listed colourspace counts.
primaries_extents_of_last(colourspaces, i, axis, least) ==
    IF colourspaces = <<>> \/ colourspaces[Len(colourspaces)] = "Pointer Gamut"
    THEN <<>>
    ELSE LET P == RGB_COLOURSPACES_get(colourspaces[Len(colourspaces)]).primaries
             column == <<P[1][axis], P[2][axis], P[3][axis]>>
         IN  <<IF least THEN Min(column) ELSE Max(column)>>

\* The list x_limit_min (axis 1) or y_limit_min (axis 2) after the loop, or
\* with Max in place of Min the list x_limit_max or y_limit_max.
RECURSIVE primaries_extents(_, _, _, _)
primaries_extents(colourspaces, i, axis, least) ==
    IF i > Len(colourspaces) THEN <<>>
    ELSE LET P == RGB_COLOURSPACES_get(colourspaces[i]).primaries
             column == <<P[1][axis], P[2][axis], P[3][axis]>>
         IN  (IF colourspaces[i] = "Pointer Gamut" THEN <<>>
              ELSE <<IF least THEN Min(column) ELSE Max(column)>>)
             \o primaries_extents(colourspaces, i + 1, axis, least)

\* colourspaces_CIE_1931_chromaticity_diagram_plot(colourspaces, cmfs, **kwargs)
colourspaces_CIE_1931_chromaticity_diagram_plot(by, colourspaces, cmfs, kwargs) ==
    LET me == "colourspaces_CIE_1931_chromaticity_diagram_plot"
        settings == Update(
            [title |-> Str(<<colourspaces, " - ", cmfs>>),
             standalone |-> Bool(FALSE)],
            kwargs)
        inner == CIE_1931_chromaticity_diagram_plot(me, DefaultCmfs, settings)
        final == Update(settings,
            [legend |-> Bool(TRUE), legend_location |-> Str(<<"upper right">>),
             x_tighten |-> Bool(TRUE), y_tighten |-> Bool(TRUE),
             limits |-> List(<<
                 Min(<<-100>> \o primaries_extents(colourspaces, 1, 1, TRUE)),
                 Max(<<900>> \o primaries_extents(colourspaces, 1, 1, FALSE)),
                 Min(<<-100>> \o primaries_extents(colourspaces, 1, 2, TRUE)),
                 Max(<<900>> \o primaries_extents(colourspaces, 1, 2, FALSE))>>),
             margins |-> List(<<-50, 50, -50, 50>>),
             standalone |-> Bool(TRUE)])
    IN  figure_size_wrapper(<<8, 8>>, kwargs,
            Then(Returns(<<Ev("call", by, me)>>, "None"),
            Then(Lookup(_get_cmfs_error(cmfs)),
            IfNotReturn(inner,
                 Then(colourspaces_loop(colourspaces, 1),
                 Then(bounding_box(me, final),
                 Then(aspect(me, final),
                      display(me, final))))))))

\* The temperatures of the iso-temperature lines.
iso_temperatures == <<1667, 2000, 2500, 3000, 4000, 6000, 10000>>

\* The planckian locus and its iso-temperature lines with their annotations.
planckian_locus(me) ==
    <<Ev("pylab.plot", me, [locus |-> "planckian"])>>
    \o [i \in 1..2 * Len(iso_temperatures) |->
           IF i % 2 = 1
           THEN Ev("pylab.plot", me, [iso |-> iso_temperatures[(i + 1) \div 2]])
           ELSE Ev("pylab.annotate", me, [s |-> <<iso_temperatures[i \div 2], "K">>])]

\* "for illuminant in illuminants" of
\* planckian_locus_CIE_1931_chromaticity_diagram_plot, from entry i on.
RECURSIVE planckian_1931_illuminants(_, _)
planckian_1931_illuminants(illuminants, i) ==
    LET me == "planckian_locus_CIE_1931_chromaticity_diagram_plot"
    IN  IF i > Len(illuminants) THEN Returns(<<>>, "None")
        ELSE Then(Lookup(lookup_error(ILLUMINANTS_KEYS, illuminants[i])),
             Then(Returns(<<Ev("pylab.plot", me, [illuminant |-> illuminants[i]]),
                            Ev("pylab.annotate", me, [s |-> illuminants[i]])>>,
                          "None"),
                  planckian_1931_illuminants(illuminants, i + 1)))

\* The same loop in planckian_locus_CIE_1960_UCS_chromaticity_diagram_plot:
\* the coordinate that .get returns goes through xy_to_uv before it is
\* tested, and xy_to_XYZ indexes its argument, which None does not allow.
RECURSIVE planckian_1960_illuminants(_, _)
planckian_1960_illuminants(illuminants, i) ==
    LET me == "planckian_locus_CIE_1960_UCS_chromaticity_diagram_plot"
    IN  IF i > Len(illuminants) THEN Returns(<<>>, "None")
        ELSE Then(Lookup(IF illuminants[i] \in ILLUMINANTS_KEYS THEN NoError
                         ELSE OtherError("TypeError")),
             Then(Returns(<<Ev("pylab.plot", me, [illuminant |-> illuminants[i]]),
                            Ev("pylab.annotate", me, [s |-> illuminants[i]])>>,
                          "None"),
                  planckian_1960_illuminants(illuminants, i + 1)))

\* planckian_locus_CIE_1931_chromaticity_diagram_plot(illuminants, **kwargs)
planckian_locus_CIE_1931_chromaticity_diagram_plot(by, illuminants, kwargs) ==
    LET me == "planckian_locus_CIE_1931_chromaticity_diagram_plot"
        settings == Update(
            [title |-> IF illuminants # <<>>
                       THEN Str(<<illuminants, " Illuminants - Planckian Locus",
                                  "CIE 1931 Chromaticity Diagram">>)
                       ELSE Str(<<"Planckian Locus",
                                  "CIE 1931 Chromaticity Diagram">>),
             standalone |-> Bool(FALSE)],
            kwargs)
        inner == CIE_1931_chromaticity_diagram_plot(me, DefaultCmfs, settings)
        final == Update(settings, [standalone |-> Bool(TRUE)])
    IN  figure_size_wrapper(<<8, 8>>, kwargs,
            Then(Returns(<<Ev("call", by, me)>>, "None"),
            IfNotReturn(inner,
                 Then(Returns(planckian_locus(me), "None"),
                 Then(planckian_1931_illuminants(illuminants, 1),
                      display(me, final))))))

\* planckian_locus_CIE_1960_UCS_chromaticity_diagram_plot(illuminants, **kwargs)
planckian_locus_CIE_1960_UCS_chromaticity_diagram_plot(by, illuminants, kwargs) ==
    LET me == "planckian_locus_CIE_1960_UCS_chromaticity_diagram_plot"
        settings == Update(
            [title |-> IF illuminants # <<>>
                       THEN Str(<<illuminants, " Illuminants - Planckian Locus",
                                  "CIE 1960 UCS Chromaticity Diagram">>)
                       ELSE Str(<<"Planckian Locus",
                                  "CIE 1960 UCS Chromaticity Diagram">>),
             standalone |-> Bool(FALSE)],
            kwargs)
        inner == CIE_1960_UCS_chromaticity_diagram_plot(me, DefaultCmfs, settings)
        final == Update(settings, [standalone |-> Bool(TRUE)])
    IN  figure_size_wrapper(<<8, 8>>, kwargs,
            Then(Returns(<<Ev("call", by, me)>>, "None"),
            IfNotReturn(inner,
                 Then(Returns(planckian_locus(me), "None"),
                 Then(planckian_1960_illuminants(illuminants, 1),
                      display(me, final))))))

-----------------------------------------------------------------------------
(* Munsell value, Lightness and transfer function plots.                   *)

\* A loop that looks every name up before it draws the first curve.
function_curves_lookups_first(me, keys, functions, i) ==
    LET unknown == {j \in i..Len(functions) : functions[j] \notin keys}
    IN  IF unknown # {}
        THEN Lookup(lookup_error(keys,
                 functions[CHOOSE j \in unknown : \A l \in unknown : j <= l]))
        ELSE Returns([j \in 1..(Len(functions) - i + 1) |->
                         Ev("pylab.plot", me, [label |-> functions[i + j - 1]])],
                     "None")

\* "for i, function in enumerate(functions)" of the three multi_*_function_plot
\* definitions, from entry i on: the lookup in the table with the given keys,
\* then one curve.
RECURSIVE function_curves(_, _, _, _)
function_curves(me, keys, functions, i) ==
    IF i > Len(functions) THEN Returns(<<>>, "None")
    ELSE Then(Lookup(lookup_error(keys, functions[i])),
         Then(Returns(<<Ev("pylab.plot", me, [label |-> functions[i]])>>, "None"),
              function_curves(me, keys, functions, i + 1)))

\* multi_munsell_value_function_plot(functions, **kwargs)
multi_munsell_value_function_plot(by, functions, kwargs) ==
    LET me == "multi_munsell_value_function_plot"
        settings == Update(
            [title |-> Str(<<functions, " - Munsell Functions">>),
             x_label |-> Str(<<"Luminance Y">>),
             y_label |-> Str(<<"Munsell Value V">>),
             x_tighten |-> Bool(TRUE), legend |-> Bool(TRUE),
             legend_location |-> Str(<<"upper left">>),
             x_ticker |-> Bool(TRUE), y_ticker |-> Bool(TRUE),
             grid |-> Bool(TRUE),
             limits |-> List(<<0, 100000, 0, 100000>>)],
            kwargs)
    IN  figure_size_wrapper(<<8, 8>>, kwargs,
            Then(Returns(<<Ev("call", by, me)>>, "None"),
            Then(function_curves(me, MUNSELL_VALUE_FUNCTIONS_KEYS, functions, 1),
            Then(bounding_box(me, settings),
            Then(aspect(me, settings),
                 display(me, settings))))))

\* single_munsell_value_function_plot(function, **kwargs)
single_munsell_value_function_plot(by, function, kwargs) ==
    LET me == "single_munsell_value_function_plot"
        settings == Update(
            [title |-> Str(<<function, " - Munsell Value Function">>)], kwargs)
    IN  Then(Returns(<<Ev("call", by, me)>>, "None"),
             multi_munsell_value_function_plot(me, <<function>>, settings))

\* multi_lightness_function_plot(functions, **kwargs)
multi_lightness_function_plot(by, functions, kwargs) ==
    LET me == "multi_lightness_function_plot"
        settings == Update(
            [title |-> Str(<<functions, " - Lightness Functions">>),
             x_label |-> Str(<<"Luminance Y">>),
             y_label |-> Str(<<"Lightness L*">>),
             x_tighten |-> Bool(TRUE), legend |-> Bool(TRUE),
             legend_location |-> Str(<<"upper left">>),
             x_ticker |-> Bool(TRUE), y_ticker |-> Bool(TRUE),
             grid |-> Bool(TRUE),
             limits |-> List(<<0, 100000, 0, 100000>>)],
            kwargs)
    IN  figure_size_wrapper(<<8, 8>>, kwargs,
            Then(Returns(<<Ev("call", by, me)>>, "None"),
            Then(function_curves(me, LIGHTNESS_FUNCTIONS_KEYS, functions, 1),
            Then(bounding_box(me, settings),
            Then(aspect(me, settings),
                 display(me, settings))))))

\* single_lightness_function_plot(function, **kwargs)
single_lightness_function_plot(by, function, kwargs) ==
    LET me == "single_lightness_function_plot"
        settings == Update(
            [title |-> Str(<<function, " - Lightness Function">>)], kwargs)
    IN  Then(Returns(<<Ev("call", by, me)>>, "None"),
             multi_lightness_function_plot(me, <<function>>, settings))

\* multi_transfer_function_plot(colourspaces, inverse, **kwargs); the curve
\* drawn is that of the transfer function or of its inverse, which the model
\* does not tell apart.
multi_transfer_function_plot(by, colourspaces, kwargs) ==
    LET me == "multi_transfer_function_plot"
        settings == Update(
            [title |-> Str(<<colourspaces, " - Transfer Functions">>),
             x_tighten |-> Bool(TRUE), legend |-> Bool(TRUE),
             legend_location |-> Str(<<"upper left">>),
             x_ticker |-> Bool(TRUE), y_ticker |-> Bool(TRUE),
             grid |-> Bool(TRUE),
             limits |-> List(<<0, 1000, 0, 1000>>)],
            kwargs)
    IN  figure_size_wrapper(<<8, 8>>, kwargs,
            Then(Returns(<<Ev("call", by, me)>>, "None"),
            Then(function_curves(me, RGB_COLOURSPACES_KEYS, colourspaces, 1),
            Then(bounding_box(me, settings),
            Then(aspect(me, settings),
                 display(me, settings))))))

\* single_transfer_function_plot(colourspace, **kwargs)
single_transfer_function_plot(by, colourspace, kwargs) ==
    LET me == "single_transfer_function_plot"
        settings == Update(
            [title |-> Str(<<colourspace, " - Transfer Function">>)], kwargs)
    IN  Then(Returns(<<Ev("call", by, me)>>, "None"),
             multi_transfer_function_plot(me, <<colourspace>>, settings))

-----------------------------------------------------------------------------
(* Blackbody and colour rendering index plots.                             *)

\* blackbody_spectral_power_distribution(temperature, *cmfs.shape), as the
\* values taken at the wavelengths of the tables.
blackbody_spectral_power_distribution(temperature) ==
    [name |-> <<temperature, "K Blackbody">>,
     values |-> [i \in 1..5 |-> i * (temperature \div 500)]]

\* blackbody_spectral_radiance_plot(temperature, cmfs, blackbody, **kwargs)
blackbody_spectral_radiance_plot(by, temperature, cmfs, kwargs) ==
    LET me == "blackbody_spectral_radiance_plot"
        blackbody == "VY Canis Major"
        spd == blackbody_spectral_power_distribution(temperature)
        upper == Update(
            [title |-> Str(<<blackbody, " - Spectral Radiance">>),
             y_label |-> Str(<<"W / (sr m2) / m">>),
             standalone |-> Bool(FALSE)],
            kwargs)
        lower == [title |-> Str(<<blackbody, " - Colour">>),
                  x_label |-> Str(<<temperature, "K">>),
                  y_label |-> Str(<<"">>),
                  aspect |-> None,
                  standalone |-> Bool(FALSE)]
        settings == Update([standalone |-> Bool(TRUE)], kwargs)
    IN  Then(Returns(<<Ev("call", by, me)>>, "None"),
        Then(Lookup(_get_cmfs_error(cmfs)),
        Then(Returns(<<Ev("pyplot.subplots_adjust", me, [hspace |-> 400]),
                       Ev("pyplot.figure", me, 1),
                       Ev("pyplot.subplot", me, 211)>>, "None"),
        Then(single_spd_plot(me, spd, cmfs, upper),
        Then(Returns(<<Ev("pyplot.subplot", me, 212)>>, "None"),
        Then(single_colour_plot(me,
                 colour_parameter(Str(<<"">>), <<"sRGB", temperature>>,
                                  None, None, None),
                 lower),
        Then(bounding_box(me, settings),
        Then(aspect(me, settings),
             display(me, settings)))))))))

\* np.arange(start, stop, step) for integers and a positive step.
RECURSIVE arange(_, _, _)
arange(start, stop, step) ==
    IF start >= stop THEN <<>>
    ELSE <<start>> \o arange(start + step, stop, step)

\* blackbody_colours_plot(start, end, steps, cmfs, **kwargs)
blackbody_colours_plot(by, start, end, steps, cmfs, kwargs) ==
    LET me == "blackbody_colours_plot"
        temperatures == arange(start, end + steps, steps)
        settings == Update(
            [title |-> Str(<<"Blackbody Colours">>),
             x_label |-> Str(<<"Temperature K">>),
             y_label |-> Str(<<"">>),
             x_tighten |-> Bool(TRUE), x_ticker |-> Bool(TRUE),
             y_ticker |-> Bool(FALSE)],
            kwargs)
    IN  Then(Returns(<<Ev("call", by, me)>>, "None"),
        Then(Lookup(_get_cmfs_error(cmfs)),
             colour_parameters_plot(me,
                 [i \in DOMAIN temperatures |->
                     colour_parameter(None, <<"sRGB", temperatures[i]>>,
                                      Num(temperatures[i]), None, None)],
                 settings)))

\* colour_rendering_index_bars_plot(illuminant, **kwargs); indexes is what
\* get_colour_rendering_index gives for the illuminant, the general index
\* first.
colour_rendering_index_bars_plot(by, illuminant, indexes, kwargs) ==
    LET me == "colour_rendering_index_bars_plot"
        positive == Min(indexes) >= 0
        width == 500
        settings == Update(
            [title |-> Str(<<"Colour Rendering Index - ", illuminant>>),
             grid |-> Bool(TRUE),
             x_tighten |-> Bool(TRUE), y_tighten |-> Bool(TRUE),
             limits |-> List(<<-width, 14000 + width * 2,
                               IF positive THEN -10000 ELSE -110000,
                               110000>>)],
            kwargs)
    IN  figure_size_wrapper(<<8, 8>>, kwargs,
            Then(Returns(<<Ev("call", by, me),
                           Ev("pyplot.subplots", me, <<>>),
                           Ev("pylab.bar", me, [y |-> indexes, width |-> width]),
                           Ev("pylab.yticks", me,
                              [from |-> IF positive THEN 0 ELSE -100,
                               to |-> 110, step |-> 10]),
                           Ev("pylab.xticks", me, Len(indexes))>>
                         \o [i \in DOMAIN indexes |->
                                Ev("axis.text", me, [s |-> indexes[i]])],
                         "None"),
            Then(bounding_box(me, settings),
            Then(aspect(me, settings),
                 display(me, settings)))))

-----------------------------------------------------------------------------
(* Label placement on its own: any table, then the label loop of any of    *)
(* the three diagrams.                                                     *)

\* The sorted list of the elements of a set of wavelengths.
Ascending(S) ==
    CHOOSE s \in [1..Cardinality(S) -> S] :
        /\ \A i, j \in 1..Cardinality(S) : i < j => s[i] < s[j]

Tables == {Ascending(S) : S \in {T \in SUBSET WaveUniverse :
                                    Cardinality(T) >= 2 /\ Cardinality(T) <= MaxLen}}

LabelInit ==
    /\ wavelengths \in Tables
    /\ coordinates \in [1..Len(wavelengths) -> Point]
    /\ diagram = "none"
    /\ placement = [placed |-> <<>>, error |-> "none"]
    /\ call = [fn |-> "none"]
    /\ outcome = Returns(<<>>, "None")
    /\ figsize = DEFAULT_FIGURE_SIZE
    /\ threads = <<>>

\* One of the three diagram plots is called for a table with the wavelengths
\* and coordinates of the state.
PlaceLabels(d) ==
    LET me == IF d = "CIE 1931" THEN "CIE_1931_chromaticity_diagram_plot"
              ELSE IF d = "CIE 1960 UCS" THEN "CIE_1960_UCS_chromaticity_diagram_plot"
              ELSE "CIE_1976_UCS_chromaticity_diagram_plot"
    IN  /\ diagram' = d
        /\ placement' = label_loop(d, wavelengths, coordinates)
        /\ call' = [fn |-> me, cmfs |-> DefaultCmfs, kwargs |-> EmptyDict]
        /\ outcome' = diagram_plot(me, "caller", d, DefaultCmfs, wavelengths,
                                   coordinates, EmptyDict)
        /\ figsize' = FigsizeAfter(figsize, outcome'.log)
        /\ UNCHANGED <<wavelengths, coordinates, threads>>

LabelNext == \E d \in Diagrams : PlaceLabels(d)

LabelSpec == LabelInit /\ [][LabelNext]_vars

-----------------------------------------------------------------------------
(* Calls of colour.plotting: each action is one call by the user, with     *)
(* arguments and keywords drawn from small sets.                           *)

MaxNames == 2
MaxCmfss == 3
MaxSwatches == 7
MaxParameters == 2

Choices(key, values) == {EmptyDict} \cup {[k \in {key} |-> v] : v \in values}
Product(A, B) == {Update(a, b) : a \in A, b \in B}

\* The keywords a caller may give to a plotting definition.
CallerKwargs ==
    Product(Product(Choices("standalone", {Bool(TRUE), Bool(FALSE)}),
                    Choices("filename", {Str(<<"out.png">>), None})),
            Choices("title", {Str(<<"Caller title">>)})
            \cup Choices("legend", {Bool(FALSE)})
            \cup Choices("limits", {List(<<-2000, 2000, -2000, 2000>>)})
            \cup Choices("figure_size", {List(<<4, 4>>)}))

\* The keywords given to the helpers when they are called directly.
HelperKwargs ==
    CallerKwargs
    \cup Product(Product(Choices("bounding_box", {None, List(<<0, 500, 0, 500>>)}),
                         Choices("x_tighten", {Bool(TRUE), Bool(FALSE)})),
                 Product(Choices("y_tighten", {Bool(TRUE)}),
                         Product(Choices("limits", {List(<<-2000, 2000, -2000, 2000>>)}),
                                 Choices("margins", {List(<<-50, 50, -50, 50>>)}))))

\* Lists of at most MaxNames names, each a key of the table or unknown.
RECURSIVE ListsOf(_, _)
ListsOf(S, n) ==
    IF n = 0 THEN {<<>>}
    ELSE LET shorter == ListsOf(S, n - 1)
         IN  shorter \cup {Append(l, x) : l \in {m \in shorter : Len(m) = n - 1}, x \in S}

NameLists(keys) == ListsOf(keys \cup {Unknown}, MaxNames)

Init ==
    /\ wavelengths = <<>>
    /\ coordinates = <<>>
    /\ diagram = "none"
    /\ placement = [placed |-> <<>>, error |-> "none"]
    /\ call = [fn |-> "none"]
    /\ outcome = Returns(<<>>, "None")
    /\ figsize = DEFAULT_FIGURE_SIZE
    /\ threads = <<>>

\* The caller holds no result of a call.
Idle == call.fn = "none"

\* A call is made when the caller holds no result of a call before it.
Do(c, o) ==
    /\ call' = c
    /\ outcome' = o
    /\ figsize' = FigsizeAfter(figsize, o.log)
    /\ UNCHANGED <<labelVars, threads>>

Call_aspect ==
    /\ Idle
    /\ \E kw \in HelperKwargs : Do([fn |-> "aspect", kwargs |-> kw], aspect("caller", kw))

Call_bounding_box ==
    /\ Idle
    /\ \E kw \in HelperKwargs :
        Do([fn |-> "bounding_box", kwargs |-> kw], bounding_box("caller", kw))

Call_display ==
    /\ Idle
    /\ \E kw \in HelperKwargs : Do([fn |-> "display", kwargs |-> kw], display("caller", kw))

ParameterChoices ==
    {colour_parameter(None, <<"RGB">>, Num(x), y0, y1) :
        x \in {100, 200}, y0 \in {None, Num(0)}, y1 \in {None, Num(500)}}
    \cup {colour_parameter(Str(<<"name">>), <<"RGB">>, None, None, None)}

Call_colour_parameters_plot ==
    /\ Idle
    /\ \E cps \in ListsOf(ParameterChoices, MaxParameters), kw \in CallerKwargs :
        Do([fn |-> "colour_parameters_plot", colour_parameters |-> cps, kwargs |-> kw],
           colour_parameters_plot("caller", cps, kw))

Call_single_colour_plot ==
    /\ Idle
    /\ \E cp \in ParameterChoices, kw \in CallerKwargs :
        Do([fn |-> "single_colour_plot", colour_parameter |-> cp, kwargs |-> kw],
           single_colour_plot("caller", cp, kw))

\* The layouts a caller may ask multi_colour_plot for.
GridKwargs ==
    Product(Choices("across", {Num(1), Num(2)}), Choices("spacing", {Num(250)}))

Call_multi_colour_plot ==
    /\ Idle
    /\ \E cps \in ListsOf(ParameterChoices, MaxParameters), kw \in CallerKwargs,
          grid \in GridKwargs :
        Do([fn |-> "multi_colour_plot", colour_parameters |-> cps,
            kwargs |-> Update(kw, grid)],
           multi_colour_plot("caller", cps, Update(kw, grid)))

\* colour.plotting.plots.colour_checker_plot, under Python 2 or Python 3.
Call_colour_checker_plot ==
    /\ Idle
    /\ \E python \in {2, 3}, name \in COLOURCHECKERS_KEYS \cup {Unknown},
       n \in 0..MaxSwatches, kw \in CallerKwargs :
        Do([fn |-> "colour_checker_plot", module |-> "plots", python |-> python,
            colour_checker |-> name, n |-> n, kwargs |-> kw],
           colour_checker_plot("caller", python, name, n, kw))

\* colour.plotting.characterization.colour_checker_plot
Call_characterization_colour_checker_plot ==
    /\ Idle
    /\ \E python \in {2, 3}, name \in COLOURCHECKERS_KEYS \cup {Unknown},
       n \in 0..MaxSwatches, kw \in CallerKwargs :
        Do([fn |-> "colour_checker_plot", module |-> "characterization",
            python |-> python, colour_checker |-> name, n |-> n, kwargs |-> kw],
           characterization_colour_checker_plot("caller", name, n, kw))

CmfsNames == CMFS_KEYS \cup {Unknown}

Call_single_spd_plot ==
    /\ Idle
    /\ \E spd \in SPDS, cmfs \in CmfsNames, kw \in CallerKwargs :
        Do([fn |-> "single_spd_plot", spd |-> spd.name, cmfs |-> cmfs, kwargs |-> kw],
           single_spd_plot("caller", spd, cmfs, kw))

Call_multi_spd_plot ==
    /\ Idle
    /\ \E spds \in ListsOf(SPDS, MaxNames), cmfs \in CmfsNames, kw \in CallerKwargs :
        Do([fn |-> "multi_spd_plot", spds |-> spds, cmfs |-> cmfs, kwargs |-> kw],
           multi_spd_plot("caller", spds, cmfs, kw))

Call_single_cmfs_plot ==
    /\ Idle
    /\ \E python \in {2, 3}, cmfs \in CmfsNames, kw \in CallerKwargs :
        Do([fn |-> "single_cmfs_plot", python |-> python, cmfs |-> cmfs,
            kwargs |-> kw],
           single_cmfs_plot("caller", python, cmfs, kw))

Call_multi_cmfs_plot ==
    /\ Idle
    /\ \E python \in {2, 3}, cmfss \in ListsOf(CmfsNames, MaxCmfss),
          kw \in CallerKwargs :
        Do([fn |-> "multi_cmfs_plot", python |-> python, cmfss |-> cmfss,
            kwargs |-> kw],
           multi_cmfs_plot("caller", python, cmfss, kw))

Call_single_illuminant_relative_spd_plot ==
    /\ Idle
    /\ \E illuminant \in ILLUMINANTS_RELATIVE_SPDS_KEYS \cup {Unknown},
       cmfs \in CmfsNames, kw \in CallerKwargs :
        Do([fn |-> "single_illuminant_relative_spd_plot",
            illuminant |-> illuminant, cmfs |-> cmfs, kwargs |-> kw],
           single_illuminant_relative_spd_plot("caller", illuminant, cmfs, kw))

Call_multi_illuminants_relative_spd_plot ==
    /\ Idle
    /\ \E illuminants \in NameLists(ILLUMINANTS_RELATIVE_SPDS_KEYS),
       kw \in CallerKwargs :
        Do([fn |-> "multi_illuminants_relative_spd_plot",
            illuminants |-> illuminants, kwargs |-> kw],
           multi_illuminants_relative_spd_plot("caller", illuminants, kw))

Call_visible_spectrum_plot ==
    /\ Idle
    /\ \E cmfs \in CmfsNames, kw \in CallerKwargs :
        Do([fn |-> "visible_spectrum_plot", cmfs |-> cmfs, kwargs |-> kw],
           visible_spectrum_plot("caller", cmfs, kw))

Call_CIE_1931_chromaticity_diagram_colours_plot ==
    /\ Idle
    /\ \E cmfs \in CmfsNames, kw \in CallerKwargs :
        Do([fn |-> "CIE_1931_chromaticity_diagram_colours_plot", cmfs |-> cmfs,
            kwargs |-> kw],
           CIE_1931_chromaticity_diagram_colours_plot("caller", cmfs, kw))

Call_CIE_1931_chromaticity_diagram_plot ==
    /\ Idle
    /\ \E cmfs \in CmfsNames, kw \in CallerKwargs :
        Do([fn |-> "CIE_1931_chromaticity_diagram_plot", cmfs |-> cmfs,
            kwargs |-> kw],
           CIE_1931_chromaticity_diagram_plot("caller", cmfs, kw))

Call_colourspaces_CIE_1931_chromaticity_diagram_plot ==
    /\ Idle
    /\ \E colourspaces \in ListsOf(RGB_COLOURSPACES_KEYS \cup {"Pointer Gamut", Unknown},
                                MaxNames),
       cmfs \in CmfsNames, kw \in CallerKwargs :
        Do([fn |-> "colourspaces_CIE_1931_chromaticity_diagram_plot",
            colourspaces |-> colourspaces, cmfs |-> cmfs, kwargs |-> kw],
           colourspaces_CIE_1931_chromaticity_diagram_plot("caller", colourspaces,
                                                           cmfs, kw))

Call_planckian_locus_CIE_1931_chromaticity_diagram_plot ==
    /\ Idle
    /\ \E illuminants \in NameLists(ILLUMINANTS_KEYS), kw \in CallerKwargs :
        Do([fn |-> "planckian_locus_CIE_1931_chromaticity_diagram_plot",
            illuminants |-> illuminants, kwargs |-> kw],
           planckian_locus_CIE_1931_chromaticity_diagram_plot("caller", illuminants,
                                                              kw))

Call_CIE_1960_UCS_chromaticity_diagram_colours_plot ==
    /\ Idle
    /\ \E cmfs \in CmfsNames, kw \in CallerKwargs :
        Do([fn |-> "CIE_1960_UCS_chromaticity_diagram_colours_plot", cmfs |-> cmfs,
            kwargs |-> kw],
           CIE_1960_UCS_chromaticity_diagram_colours_plot("caller", cmfs, kw))

Call_CIE_1960_UCS_chromaticity_diagram_plot ==
    /\ Idle
    /\ \E cmfs \in CmfsNames, kw \in CallerKwargs :
        Do([fn |-> "CIE_1960_UCS_chromaticity_diagram_plot", cmfs |-> cmfs,
            kwargs |-> kw],
           CIE_1960_UCS_chromaticity_diagram_plot("caller", cmfs, kw))

Call_planckian_locus_CIE_1960_UCS_chromaticity_diagram_plot ==
    /\ Idle
    /\ \E illuminants \in NameLists(ILLUMINANTS_KEYS), kw \in CallerKwargs :
        Do([fn |-> "planckian_locus_CIE_1960_UCS_chromaticity_diagram_plot",
            illuminants |-> illuminants, kwargs |-> kw],
           planckian_locus_CIE_1960_UCS_chromaticity_diagram_plot("caller",
                                                                  illuminants, kw))

Call_CIE_1976_UCS_chromaticity_diagram_colours_plot ==
    /\ Idle
    /\ \E cmfs \in CmfsNames, kw \in CallerKwargs :
        Do([fn |-> "CIE_1976_UCS_chromaticity_diagram_colours_plot", cmfs |-> cmfs,
            kwargs |-> kw],
           CIE_1976_UCS_chromaticity_diagram_colours_plot("caller", cmfs, kw))

Call_CIE_1976_UCS_chromaticity_diagram_plot ==
    /\ Idle
    /\ \E cmfs \in CmfsNames, kw \in CallerKwargs :
        Do([fn |-> "CIE_1976_UCS_chromaticity_diagram_plot", cmfs |-> cmfs,
            kwargs |-> kw],
           CIE_1976_UCS_chromaticity_diagram_plot("caller", cmfs, kw))

Call_single_munsell_value_function_plot ==
    /\ Idle
    /\ \E function \in MUNSELL_VALUE_FUNCTIONS_KEYS \cup {Unknown}, kw \in CallerKwargs :
        Do([fn |-> "single_munsell_value_function_plot", function |-> function,
            kwargs |-> kw],
           single_munsell_value_function_plot("caller", function, kw))

Call_multi_munsell_value_function_plot ==
    /\ Idle
    /\ \E functions \in NameLists(MUNSELL_VALUE_FUNCTIONS_KEYS), kw \in CallerKwargs :
        Do([fn |-> "multi_munsell_value_function_plot", functions |-> functions,
            kwargs |-> kw],
           multi_munsell_value_function_plot("caller", functions, kw))

Call_single_lightness_function_plot ==
    /\ Idle
    /\ \E function \in LIGHTNESS_FUNCTIONS_KEYS \cup {Unknown}, kw \in CallerKwargs :
        Do([fn |-> "single_lightness_function_plot", function |-> function,
            kwargs |-> kw],
           single_lightness_function_plot("caller", function, kw))

Call_multi_lightness_function_plot ==
    /\ Idle
    /\ \E functions \in NameLists(LIGHTNESS_FUNCTIONS_KEYS), kw \in CallerKwargs :
        Do([fn |-> "multi_lightness_function_plot", functions |-> functions,
            kwargs |-> kw],
           multi_lightness_function_plot("caller", functions, kw))

Call_single_transfer_function_plot ==
    /\ Idle
    /\ \E colourspace \in RGB_COLOURSPACES_KEYS \cup {Unknown}, kw \in CallerKwargs :
        Do([fn |-> "single_transfer_function_plot", colourspace |-> colourspace,
            kwargs |-> kw],
           single_transfer_function_plot("caller", colourspace, kw))

Call_multi_transfer_function_plot ==
    /\ Idle
    /\ \E colourspaces \in NameLists(RGB_COLOURSPACES_KEYS), kw \in CallerKwargs :
        Do([fn |-> "multi_transfer_function_plot", colourspaces |-> colourspaces,
            kwargs |-> kw],
           multi_transfer_function_plot("caller", colourspaces, kw))

Temperatures == {1000, 1500, 2000}
Steps == {500, 1000}

Call_blackbody_spectral_radiance_plot ==
    /\ Idle
    /\ \E temperature \in Temperatures, cmfs \in CmfsNames, kw \in CallerKwargs :
        Do([fn |-> "blackbody_spectral_radiance_plot", temperature |-> temperature,
            cmfs |-> cmfs, kwargs |-> kw],
           blackbody_spectral_radiance_plot("caller", temperature, cmfs, kw))

Call_blackbody_colours_plot ==
    /\ Idle
    /\ \E start \in Temperatures, end \in Temperatures, steps \in Steps,
       cmfs \in CmfsNames, kw \in CallerKwargs :
        Do([fn |-> "blackbody_colours_plot", start |-> start, end |-> end,
            steps |-> steps, cmfs |-> cmfs, kwargs |-> kw],
           blackbody_colours_plot("caller", start, end, steps, cmfs, kw))

\* What get_colour_rendering_index gives: the general index, then the index
\* of each test colour sample.
RenderingIndexes == {<<80, 90, 70>>, <<35, 90, -20>>}

Call_colour_rendering_index_bars_plot ==
    /\ Idle
    /\ \E illuminant \in ILLUMINANTS_RELATIVE_SPDS_KEYS, indexes \in RenderingIndexes,
       kw \in CallerKwargs :
        Do([fn |-> "colour_rendering_index_bars_plot", illuminant |-> illuminant,
            indexes |-> indexes, kwargs |-> kw],
           colour_rendering_index_bars_plot("caller", illuminant, indexes, kw))

\* The caller has read the result of the call and is ready for the next one;
\* the figure size is the one state that outlives a call.
Done ==
    /\ call.fn # "none"
    /\ call' = [fn |-> "none"]
    /\ outcome' = Returns(<<>>, "None")
    /\ UNCHANGED <<figsize, wavelengths, coordinates, diagram, placement, threads>>

Next ==
    \/ Done
    \/ Call_aspect
    \/ Call_bounding_box
    \/ Call_display
    \/ Call_colour_parameters_plot
    \/ Call_single_colour_plot
    \/ Call_multi_colour_plot
    \/ Call_colour_checker_plot
    \/ Call_characterization_colour_checker_plot
    \/ Call_single_spd_plot
    \/ Call_multi_spd_plot
    \/ Call_single_cmfs_plot
    \/ Call_multi_cmfs_plot
    \/ Call_single_illuminant_relative_spd_plot
    \/ Call_multi_illuminants_relative_spd_plot
    \/ Call_visible_spectrum_plot
    \/ Call_CIE_1931_chromaticity_diagram_colours_plot
    \/ Call_CIE_1931_chromaticity_diagram_plot
    \/ Call_colourspaces_CIE_1931_chromaticity_diagram_plot
    \/ Call_planckian_locus_CIE_1931_chromaticity_diagram_plot
    \/ Call_CIE_1960_UCS_chromaticity_diagram_colours_plot
    \/ Call_CIE_1960_UCS_chromaticity_diagram_plot
    \/ Call_planckian_locus_CIE_1960_UCS_chromaticity_diagram_plot
    \/ Call_CIE_1976_UCS_chromaticity_diagram_colours_plot
    \/ Call_CIE_1976_UCS_chromaticity_diagram_plot
    \/ Call_single_munsell_value_function_plot
    \/ Call_multi_munsell_value_function_plot
    \/ Call_single_lightness_function_plot
    \/ Call_multi_lightness_function_plot
    \/ Call_single_transfer_function_plot
    \/ Call_multi_transfer_function_plot
    \/ Call_blackbody_spectral_radiance_plot
    \/ Call_blackbody_colours_plot
    \/ Call_colour_rendering_index_bars_plot

Spec == Init /\ [][Next]_vars

-----------------------------------------------------------------------------
(* Decorated calls made from several threads: figure_size_wrapper is three  *)
(* steps, the assignment of the size, the call of the decorated definition *)
(* and the assignment of the default in the "finally" clause, and nothing  *)
(* in the module orders the steps of one thread with those of another.     *)

MaxThreads == 2

Threads == 1..MaxThreads

\* The sizes that the decorators of the module ask for.
FigureSizes == {<<8, 8>>, <<32, 32>>}

ThreadInit ==
    /\ wavelengths = <<>>
    /\ coordinates = <<>>
    /\ diagram = "none"
    /\ placement = [placed |-> <<>>, error |-> "none"]
    /\ call = [fn |-> "none"]
    /\ outcome = Returns(<<>>, "None")
    /\ figsize = DEFAULT_FIGURE_SIZE
    /\ threads \in [Threads -> {[pc |-> "set", size |-> size, seen |-> <<>>] :
                                    size \in FigureSizes}]

\* A "finally" clause that waits until no other thread is inside a call.
figure_size_reset_exclusive(t) ==
    /\ threads[t].pc = "reset"
    /\ \A u \in Threads \ {t} : threads[u].pc \notin {"body", "reset"}
    /\ figsize' = DEFAULT_FIGURE_SIZE
    /\ threads' = [threads EXCEPT ![t].pc = "done"]
    /\ UNCHANGED <<labelVars, call, outcome>>

\* pylab.rcParams['figure.figsize'] = kwargs.get('figure_size') ... else size
figure_size_set(t) ==
    /\ threads[t].pc = "set"
    /\ figsize' = threads[t].size
    /\ threads' = [threads EXCEPT ![t].pc = "body"]
    /\ UNCHANGED <<labelVars, call, outcome>>

\* return object(*args, **kwargs): the figure is made with the size that
\* rcParams holds at that time.
figure_size_body(t) ==
    /\ threads[t].pc = "body"
    /\ threads' = [threads EXCEPT ![t].pc = "reset", ![t].seen = figsize]
    /\ UNCHANGED <<labelVars, call, outcome, figsize>>

\* finally: pylab.rcParams['figure.figsize'] = DEFAULT_FIGURE_SIZE
figure_size_reset(t) ==
    /\ threads[t].pc = "reset"
    /\ figsize' = DEFAULT_FIGURE_SIZE
    /\ threads' = [threads EXCEPT ![t].pc = "done"]
    /\ UNCHANGED <<labelVars, call, outcome>>

ThreadNext ==
    \E t \in Threads :
        \/ figure_size_set(t)
        \/ figure_size_body(t)
        \/ figure_size_reset(t)

ThreadSpec == ThreadInit /\ [][ThreadNext]_vars

-----------------------------------------------------------------------------
(* Claims about the label placement (checked under LabelSpec).             *)

Placed == {placement.placed[i] : i \in DOMAIN placement.placed}

\* The sign of dot(normal, v) for a scaled normalised vector and an exact v.
NormalDot(n, v) == dot(n.dir, v) * n.num

\* C1: in the three diagram plots, for every label whose tangent is not zero,
\* the normal chosen for the label satisfies
\* dot(normal, point - (1/3, 1/3)) >= 0.
C1_NormalPointsAway ==
    \A p \in Placed :
        ~IsZero(p.tangent) =>
            /\ ~p.normal.nan
            /\ NormalDot(p.normal, Minus(p.point, EqualEnergy)) >= 0

\* A label loop placed a label for which the first candidate (-dy, dx) points
\* inwards, so that the opposite one was chosen, strictly outwards.
C1_Witness ==
    \E p \in Placed :
        /\ ~IsZero(p.tangent)
        /\ p.normal.dir = <<p.tangent[2], -p.tangent[1]>>
        /\ NormalDot(p.normal, Minus(p.point, EqualEnergy)) > 0

\* C2 as claimed: the text is aligned "left" when the x component of the
\* normal is negative and "right" otherwise.
C2_AsClaimed ==
    \A p \in Placed :
        p.ha = IF ~p.normal.nan /\ p.normal.dir[1] < 0 THEN "left" ELSE "right"

\* C2 amended: the text is aligned "left" when the x component of the normal
\* is zero or positive, and "right" when it is negative or not a number (the
\* normal of a zero tangent).
C2_Alignment ==
    \A p \in Placed :
        /\ (~p.normal.nan /\ p.normal.dir[1] >= 0) => p.ha = "left"
        /\ (p.normal.nan \/ p.normal.dir[1] < 0) => p.ha = "right"

\* One loop placed a label with a zero x component, one with a positive and
\* one with a negative x component.
C2_Witness ==
    /\ \E p \in Placed : ~p.normal.nan /\ p.normal.dir[1] = 0 /\ p.ha = "left"
    /\ \E p \in Placed : ~p.normal.nan /\ p.normal.dir[1] < 0 /\ p.ha = "right"

-----------------------------------------------------------------------------
(* Claims about the plotting calls (checked under Spec).                   *)

Log == outcome.log
Calls(op) == {i \in DOMAIN Log : Log[i].op = op}
HelperOps == {"bounding_box", "aspect", "display"}

\* The position of the first entry of names that is no key, 0 when all are.
FirstUnknown(names, keys) ==
    IF \A i \in DOMAIN names : names[i] \in keys THEN 0
    ELSE CHOOSE i \in DOMAIN names :
            /\ names[i] \notin keys
            /\ \A j \in 1..(i - 1) : names[j] \in keys

\* s lists every key once, in the order Python sorts strings.
SortedKeys(s, keys) ==
    /\ Len(s) = Cardinality(keys)
    /\ {s[i] : i \in DOMAIN s} = keys
    /\ \A i, j \in DOMAIN s : i < j =>
           \E a, b \in DOMAIN NameOrder :
               NameOrder[a] = s[i] /\ NameOrder[b] = s[j] /\ a < b

C4_Names ==
    CASE call.fn = "single_illuminant_relative_spd_plot" -> <<call.illuminant>>
      [] call.fn = "multi_illuminants_relative_spd_plot" -> call.illuminants
      [] call.fn = "single_transfer_function_plot" -> <<call.colourspace>>
      [] call.fn = "multi_transfer_function_plot" -> call.colourspaces
      [] call.fn = "colour_checker_plot" -> <<call.colour_checker>>
      [] call.fn = "single_munsell_value_function_plot" -> <<call.function>>
      [] call.fn = "multi_munsell_value_function_plot" -> call.functions
      [] call.fn = "single_lightness_function_plot" -> <<call.function>>
      [] call.fn = "multi_lightness_function_plot" -> call.functions
      [] OTHER -> <<>>

C4_Keys ==
    CASE call.fn \in {"single_illuminant_relative_spd_plot",
                      "multi_illuminants_relative_spd_plot"}
             -> ILLUMINANTS_RELATIVE_SPDS_KEYS
      [] call.fn \in {"single_transfer_function_plot",
                      "multi_transfer_function_plot"} -> RGB_COLOURSPACES_KEYS
      [] call.fn = "colour_checker_plot" -> COLOURCHECKERS_KEYS
      [] call.fn \in {"single_munsell_value_function_plot",
                      "multi_munsell_value_function_plot"}
             -> MUNSELL_VALUE_FUNCTIONS_KEYS
      [] call.fn \in {"single_lightness_function_plot",
                      "multi_lightness_function_plot"} -> LIGHTNESS_FUNCTIONS_KEYS
      [] OTHER -> {}

\* C4: a call that looks up an illuminant, an RGB colourspace, a colour
\* checker, a Munsell value function or a Lightness function raises
\* KeyError with the first name that is no key of the table and the sorted
\* list of all keys of the table; when every name is a key no KeyError is
\* raised.
C4_LookupError ==
    LET u == FirstUnknown(C4_Names, C4_Keys)
    IN  C4_Keys # {} =>
            IF u = 0 THEN outcome.err.type # "KeyError"
            ELSE /\ outcome.err.type = "KeyError"
                 /\ outcome.err.name = C4_Names[u]
                 /\ SortedKeys(outcome.err.keys, C4_Keys)

\* A list of two Lightness functions whose second name is unknown raised the
\* KeyError, after the curve of the first one was drawn.
C4_Witness ==
    /\ call.fn = "multi_lightness_function_plot"
    /\ Len(call.functions) = 2
    /\ call.functions[1] \in LIGHTNESS_FUNCTIONS_KEYS
    /\ call.functions[2] = Unknown
    /\ outcome.err = KeyError(Unknown, <<"Lightness 1976", "Lightness Wyszecki 1964">>)
    /\ Calls("pylab.plot") # {}

\* C5 as claimed: both planckian locus plots raise KeyError naming the first
\* illuminant that is no key of the observer's illuminants, with the sorted
\* keys.
C5_AsClaimed ==
    (call.fn \in {"planckian_locus_CIE_1931_chromaticity_diagram_plot",
                  "planckian_locus_CIE_1960_UCS_chromaticity_diagram_plot"}
        /\ FirstUnknown(call.illuminants, ILLUMINANTS_KEYS) # 0)
    => /\ outcome.err.type = "KeyError"
       /\ outcome.err.name =
              call.illuminants[FirstUnknown(call.illuminants, ILLUMINANTS_KEYS)]
       /\ SortedKeys(outcome.err.keys, ILLUMINANTS_KEYS)

\* The calls C6 names, made with a name that is no key.
C6_FailedLookup ==
    \/ /\ call.fn = "colour_checker_plot"
       /\ call.colour_checker \notin COLOURCHECKERS_KEYS
    \/ /\ call.fn = "multi_illuminants_relative_spd_plot"
       /\ FirstUnknown(call.illuminants, ILLUMINANTS_RELATIVE_SPDS_KEYS) # 0

\* C6: colour_checker_plot with an unknown colour checker, and
\* multi_illuminants_relative_spd_plot with an unknown illuminant anywhere in
\* its list, raise the KeyError to the caller having issued no call to the
\* backend and no call to bounding_box, aspect or display.
C6_NothingDrawn ==
    C6_FailedLookup =>
        /\ outcome.err.type = "KeyError"
        /\ outcome.ret = "raised"
        /\ \A i \in DOMAIN Log : Log[i].op = "call"

\* multi_illuminants_relative_spd_plot failed on the second illuminant of its
\* list, the first one being known.
C6_Witness ==
    /\ call.fn = "multi_illuminants_relative_spd_plot"
    /\ Len(call.illuminants) = 2
    /\ call.illuminants[1] \in ILLUMINANTS_RELATIVE_SPDS_KEYS
    /\ call.illuminants[2] = Unknown
    /\ outcome.err.type = "KeyError"
    /\ Calls("pylab.plot") = {}

\* C7: a call of a plotting definition or of aspect, bounding_box or display
\* that does not raise returns True.
C7_ReturnsTrue ==
    (call.fn # "none" /\ ~Raised(outcome)) => outcome.ret = "True"

\* colourspaces_CIE_1931_chromaticity_diagram_plot went past its test of the
\* inner plot's result and returned True, the inner plot having been told by
\* the caller to stand alone.
C7_Witness ==
    /\ call.fn = "colourspaces_CIE_1931_chromaticity_diagram_plot"
    /\ Get(call.kwargs, "standalone") = Bool(TRUE)
    /\ Len(call.colourspaces) = 2
    /\ ~Raised(outcome)
    /\ outcome.ret = "True"

\* A call to the backend that draws a part of the plot.
Geometry(e) ==
    /\ e.op \in {"pylab.plot", "pylab.fill", "pylab.text", "pylab.scatter",
                 "pylab.imshow", "pylab.annotate", "pylab.bar", "axis.text"}
    /\ e.by \notin HelperOps

\* The calls at positions i < j of the log keep the order geometry,
\* bounding_box, aspect, display.
InOrder(i, j) ==
    /\ Log[i].op \in {"bounding_box", "aspect"} => ~Geometry(Log[j])
    /\ Log[i].op = "aspect" => Log[j].op # "bounding_box"
    /\ Log[i].op = "display" => Log[j].op \notin {"bounding_box", "aspect"}

\* C8 as claimed: in every call, once bounding_box or aspect has been
\* applied no geometry is drawn, and bounding_box, aspect and display are
\* applied in this order.
C8_AsClaimed ==
    \A i, j \in DOMAIN Log : i < j => InOrder(i, j)

\* The definitions that draw over the plot of another definition.
Composed ==
    {"colour_checker_plot", "colourspaces_CIE_1931_chromaticity_diagram_plot",
     "planckian_locus_CIE_1931_chromaticity_diagram_plot",
     "planckian_locus_CIE_1960_UCS_chromaticity_diagram_plot",
     "blackbody_spectral_radiance_plot"}

\* C8 amended: among the calls that one plotting definition issues itself,
\* its geometry comes first, then bounding_box, then aspect, then display,
\* and display is the last of them; the whole call keeps the order
\* geometry, bounding_box, aspect, display unless the definition called is
\* one that draws over another plot, which issues its own calls after that
\* plot has issued its own.
C8_OwnOrder ==
    /\ \A i, j \in DOMAIN Log : (i < j /\ Log[i].by = Log[j].by) =>
          /\ InOrder(i, j)
          /\ Log[i].op = "display" => Log[j].op \notin HelperOps /\ ~Geometry(Log[j])
    /\ call.fn \notin Composed => \A i, j \in DOMAIN Log : i < j => InOrder(i, j)

\* colour_checker_plot drew its caption after multi_colour_plot had applied
\* its bounding box and aspect, then applied its own in order.
C8_Witness ==
    /\ call.fn = "colour_checker_plot"
    /\ ~Raised(outcome)
    /\ \E i, j, k, l, m \in DOMAIN Log :
          /\ i < j /\ j < k /\ k < l /\ l < m
          /\ Log[i].op = "aspect" /\ Log[i].by = "multi_colour_plot"
          /\ Log[j].op = "pylab.text" /\ Log[j].by = "colour_checker_plot"
          /\ Log[k].op = "bounding_box" /\ Log[k].by = "colour_checker_plot"
          /\ Log[l].op = "aspect" /\ Log[l].by = "colour_checker_plot"
          /\ Log[m].op = "display" /\ Log[m].by = "colour_checker_plot"

\* The last call of the helper op in the log, 0 when there is none.
LastCall(op) ==
    IF Calls(op) = {} THEN 0
    ELSE CHOOSE i \in Calls(op) : \A j \in Calls(op) : j <= i

C10_Expected(kw) ==
    LET standalone == IF "standalone" \in DOMAIN kw THEN Truthy(kw["standalone"])
                      ELSE TRUE
        filename   == "filename" \in DOMAIN kw /\ kw["filename"] # None
    IN  IF ~standalone THEN <<>>
        ELSE IF filename THEN <<"pylab.savefig", "pylab.close">>
        ELSE <<"pylab.show", "pylab.close">>

\* The backend calls display issued in its call at position i of the log.
C10_Issued(i) ==
    LET n == CHOOSE n \in 0..(Len(Log) - i) :
                 /\ \A j \in (i + 1)..(i + n) : Log[j].by = "display"
                 /\ (i + n + 1 \in DOMAIN Log => Log[i + n + 1].by # "display")
    IN  [j \in 1..n |-> Log[i + j].op]

\* C10: every call of display, by a caller or by a plot, saves then closes
\* when standalone is true and a filename is given, shows then closes when
\* standalone is true and no filename is given, and calls nothing of the
\* backend when standalone is false.
C10_DisplayOutput ==
    \A i \in Calls("display") : C10_Issued(i) = C10_Expected(Log[i].args)

\* display was called with standalone true and a filename, and saved.
C10_Witness ==
    /\ call.fn = "display"
    /\ Get(call.kwargs, "standalone") = Bool(TRUE)
    /\ Get(call.kwargs, "filename") = Str(<<"out.png">>)
    /\ [i \in DOMAIN Log |-> Log[i].op] = <<"display", "pylab.savefig", "pylab.close">>

\* The calls that show or save the figure, and those that close it.
Shown == Calls("pylab.show") \cup Calls("pylab.savefig")
Closed == Calls("pylab.close")

\* C11 as claimed: one call of a plotting definition shows or saves the
\* figure at most once, draws nothing after it has shown or saved it, and
\* draws nothing after it has closed it.
C11_AsClaimed ==
    call.fn \notin {"none"} \cup HelperOps =>
        /\ Cardinality(Shown) <= 1
        /\ \A i \in Shown \cup Closed :
              \A j \in DOMAIN Log : i < j => ~Geometry(Log[j])

-----------------------------------------------------------------------------
(* More claims about the label placement (checked under LabelSpec).        *)

Samples == {wavelengths[i] : i \in DOMAIN wavelengths}
Labels == labels_of(diagram)

\* The label loop reaches the label at position i: the labels before it are
\* wavelengths of the table.
Reached(i) == \A j \in 1..(i - 1) : Labels[j] \in Samples

\* C12: a label equal to the first or to the last wavelength of the table,
\* when the loop reaches it, is placed, with both bracket wavelengths samples
\* of the table: the first wavelength is bracketed by itself and the second
\* sample, the last wavelength by itself on both sides.
C12_EndLabelsPlaced ==
    diagram # "none" =>
        \A i \in DOMAIN Labels :
            (Reached(i) /\ Labels[i] \in {wavelengths[1], wavelengths[Len(wavelengths)]}) =>
                /\ i \in DOMAIN placement.placed
                /\ placement.placed[i].label = Labels[i]
                /\ placement.placed[i].left \in Samples
                /\ placement.placed[i].right \in Samples
                /\ Labels[i] = wavelengths[1] =>
                      /\ placement.placed[i].left = wavelengths[1]
                      /\ placement.placed[i].right = wavelengths[2]
                /\ Labels[i] = wavelengths[Len(wavelengths)] =>
                      /\ placement.placed[i].left = wavelengths[Len(wavelengths)]
                      /\ placement.placed[i].right = wavelengths[Len(wavelengths)]

\* One loop placed the first wavelength of its table and the last one.
C12_Witness ==
    /\ diagram # "none"
    /\ \E p \in Placed : p.label = wavelengths[1]
    /\ \E p \in Placed : p.label = wavelengths[Len(wavelengths)]

\* The positions of the labels of the loop that are no wavelength of the table.
Absent == {i \in DOMAIN Labels : Labels[i] \notin Samples}

\* The labels of the texts drawn, in the order of the log.
RECURSIVE TextsOf(_)
TextsOf(log) ==
    IF log = <<>> THEN <<>>
    ELSE IF Head(log).op = "pylab.text"
         THEN <<Head(log).args.s>> \o TextsOf(Tail(log))
         ELSE TextsOf(Tail(log))

\* C13: when a label is no wavelength of the table, the diagram plot raises
\* at the first such label: the labels before it are drawn, nothing is drawn
\* for it or for the labels after it, and bounding_box, aspect and display
\* are not called.  Every label drawn is a wavelength of the table, drawn at
\* the coordinate the table holds for that wavelength.  When every label is
\* a wavelength of the table, all are drawn and the plot is displayed.
C13_ExactLookup ==
    diagram # "none" =>
        /\ \A i \in DOMAIN placement.placed :
              /\ placement.placed[i].label = Labels[i]
              /\ \E k \in DOMAIN wavelengths :
                    /\ wavelengths[k] = Labels[i]
                    /\ placement.placed[i].point = coordinates[k]
        /\ Absent # {} =>
              /\ Raised(outcome)
              /\ outcome.err.type = "TypeError"
              /\ \E k \in Absent :
                    /\ \A j \in Absent : k <= j
                    /\ TextsOf(Log) = SubSeq(Labels, 1, k - 1)
              /\ \A i \in DOMAIN Log : Log[i].op \notin HelperOps
              /\ Shown = {}
        /\ Absent = {} =>
              /\ ~Raised(outcome)
              /\ TextsOf(Log) = Labels
              /\ Calls("display") # {}

\* A diagram plot drew a label and then raised at a label that is no
\* wavelength of its table.
C13_Witness ==
    /\ diagram # "none"
    /\ Absent # {}
    /\ Raised(outcome)
    /\ Len(TextsOf(Log)) >= 1

\* The positions of the log at which a line through a list of points is drawn.
Lines == {i \in Calls("pylab.plot") : "points" \in DOMAIN Log[i].args}

\* C14: each diagram plot draws two lines: first the line through the
\* coordinates of the table, one per wavelength and in the order of the
\* table, then the segment from the last coordinate to the first.
C14_ClosedBoundary ==
    diagram # "none" =>
        \E i \in DOMAIN Log :
            /\ Lines = {i, i + 1}
            /\ Len(Log[i].args.points) = Len(wavelengths)
            /\ \A k \in DOMAIN wavelengths : Log[i].args.points[k] = coordinates[k]
            /\ Log[i + 1].args.points =
                   <<coordinates[Len(coordinates)], coordinates[1]>>

\* A diagram plot drew the boundary of a table of three wavelengths whose
\* first and last coordinates differ.
C14_Witness ==
    /\ diagram # "none"
    /\ Len(wavelengths) = 3
    /\ coordinates[1] # coordinates[3]
    /\ Lines # {}

\* The labels placed that are interior wavelengths of the table.
Interior ==
    {p \in Placed : p.label \notin {wavelengths[1], wavelengths[Len(wavelengths)]}}

\* C15 as claimed: for a label that is an interior wavelength of the table,
\* the left bracket wavelength is smaller than the label and the right one
\* is greater.
C15_AsClaimed ==
    \A p \in Interior : p.left < p.label /\ p.label < p.right

\* C15 amended: for a label that is an interior wavelength of the table, the
\* left bracket wavelength is the label itself and the right one is the next
\* wavelength of the table, greater than the label; the tangent is the
\* difference of the coordinates of these two.
C15_ForwardBracket ==
    \A p \in Interior :
        \E k \in DOMAIN wavelengths :
            /\ wavelengths[k] = p.label
            /\ p.left = p.label
            /\ p.right = wavelengths[k + 1]
            /\ p.label < p.right
            /\ p.tangent = Minus(coordinates[k + 1], coordinates[k])

\* A label loop placed an interior wavelength of a table whose neighbours on
\* both sides have coordinates that differ from its own.
C15_Witness ==
    \E p \in Interior :
        /\ Len(wavelengths) = 3
        /\ p.label = wavelengths[2]
        /\ coordinates[1] # coordinates[2]
        /\ coordinates[3] # coordinates[2]

\* The tick and the text of a placed label lie along its normal, the text
\* at 1/25 of the unit normal and the tick end at 3/4 of that.
AlongNormal(p) ==
    /\ p.tick.dir = p.normal.dir /\ p.text.dir = p.normal.dir
    /\ p.text.num > 0 /\ p.text.den = 25 * p.text.num
    /\ p.tick.num > 0 /\ 4 * p.tick.num * p.text.den = 3 * p.text.num * p.tick.den
    /\ p.tick.num * p.text.den < p.text.num * p.tick.den

\* The tick and the text of the label drawn at position i of the log are
\* those placed for it.
DrawnAsPlaced(i, p) ==
    /\ Log[i].args.s = p.label
    /\ Log[i].args.at = p.point /\ Log[i].args.offset = p.text
    /\ Log[i - 1].args.from = p.point /\ Log[i - 1].args.to = p.tick

\* C16 as claimed: for every label, the normal is a vector, the text is
\* anchored at 1/25 of the unit normal from the boundary point, and the tick
\* ends at 3/4 of that offset on the same ray, short of the text anchor.
C16_AsClaimed ==
    \A p \in Placed : ~p.normal.nan /\ AlongNormal(p)

\* What holds of the tick and the text: the property of C16 for every label
\* whose tangent is not zero; for a label whose tangent is zero the normal,
\* the tick end and the text anchor are not numbers.  The tick and text
\* drawn are the ones computed.
C16_TickAndText ==
    diagram # "none" =>
        /\ \A p \in Placed :
              /\ ~IsZero(p.tangent) => ~p.normal.nan /\ AlongNormal(p)
              /\ IsZero(p.tangent) => p.normal.nan /\ p.tick.nan /\ p.text.nan
        /\ \A i \in Calls("pylab.text") : \E p \in Placed : DrawnAsPlaced(i, p)

\* A diagram plot drew a label with a tangent that is not zero and, in the
\* same loop, the last wavelength of the table, whose tangent is zero.
C16_BothCases ==
    /\ diagram # "none"
    /\ \E p \in Placed : ~IsZero(p.tangent) /\ ~p.normal.nan
    /\ \E p \in Placed : p.label = wavelengths[Len(wavelengths)] /\ p.normal.nan
    /\ Calls("pylab.text") # {}

-----------------------------------------------------------------------------
(* More claims about the plotting calls (checked under Spec).              *)

\* The plots that look names up inside their drawing loop, and for a call of
\* one of them the names it is given and the names its lookup knows.
C17_Plots ==
    {"multi_munsell_value_function_plot", "multi_lightness_function_plot",
     "multi_transfer_function_plot",
     "colourspaces_CIE_1931_chromaticity_diagram_plot"}

C17_Names ==
    IF call.fn \in {"multi_munsell_value_function_plot",
                    "multi_lightness_function_plot"}
    THEN call.functions ELSE call.colourspaces

C17_Keys ==
    CASE call.fn = "multi_munsell_value_function_plot" -> MUNSELL_VALUE_FUNCTIONS_KEYS
      [] call.fn = "multi_lightness_function_plot" -> LIGHTNESS_FUNCTIONS_KEYS
      [] call.fn = "multi_transfer_function_plot" -> RGB_COLOURSPACES_KEYS
      [] OTHER -> RGB_COLOURSPACES_KEYS \cup {"Pointer Gamut"}

\* The call is one of these plots, every other argument is valid, and the
\* first unknown name is at position k of the list (counted from 1).
C17_UnknownAt(k) ==
    /\ call.fn \in C17_Plots
    /\ call.fn = "colourspaces_CIE_1931_chromaticity_diagram_plot" =>
           call.cmfs \in CMFS_KEYS
    /\ k # 0
    /\ k = FirstUnknown(C17_Names, C17_Keys)

\* The labels of the curves that the definition me drew, in order.
RECURSIVE CurvesOf(_, _)
CurvesOf(log, me) ==
    IF log = <<>> THEN <<>>
    ELSE IF /\ Head(log).by = me
            /\ Head(log).op = "pylab.plot"
            /\ "label" \in DOMAIN Head(log).args
         THEN <<Head(log).args.label>> \o CurvesOf(Tail(log), me)
         ELSE CurvesOf(Tail(log), me)

\* The call raised the KeyError of the name at position k after drawing the
\* curves of the names before it and of no other name.
C17_PartlyDrawn(k) ==
    /\ Raised(outcome)
    /\ outcome.err.type = "KeyError"
    /\ outcome.err.name = C17_Names[k]
    /\ CurvesOf(Log, call.fn) = SubSeq(C17_Names, 1, k - 1)

\* C17 as claimed: when the first unknown name is at position k, the curves
\* of the names before it are drawn, nothing is drawn for the names from k
\* on, and bounding_box, aspect and display are not called.
C17_AsClaimed ==
    \A k \in 0..MaxNames :
        C17_UnknownAt(k) =>
            /\ C17_PartlyDrawn(k)
            /\ \A i \in DOMAIN Log : Log[i].op \notin HelperOps

\* C17 amended: when the first unknown name is at position k, the curves of
\* the names before it are drawn, nothing is drawn for the names from k on,
\* and the plot does not call bounding_box, aspect or display itself.  The
\* three function plots call none at all; in the colourspaces plot the
\* diagram plot it draws over has called all three before the loop starts.
C17_PartialFigure ==
    \A k \in 0..MaxNames :
        C17_UnknownAt(k) =>
            /\ C17_PartlyDrawn(k)
            /\ \A i \in DOMAIN Log : Log[i].op \in HelperOps => Log[i].by # call.fn
            /\ call.fn # "colourspaces_CIE_1931_chromaticity_diagram_plot" =>
                   \A i \in DOMAIN Log : Log[i].op \notin HelperOps
            /\ call.fn = "colourspaces_CIE_1931_chromaticity_diagram_plot" =>
                   \A op \in HelperOps :
                       \E i \in Calls(op) :
                           Log[i].by = "CIE_1931_chromaticity_diagram_plot"

\* A function plot drew the curve of its first name and raised at the
\* second, which is unknown.
C17_Witness ==
    /\ C17_UnknownAt(2)
    /\ call.fn = "multi_lightness_function_plot"
    /\ Len(CurvesOf(Log, call.fn)) = 1
    /\ Raised(outcome)

-----------------------------------------------------------------------------
(* Claim about decorated calls in several threads (checked under           *)
(* ThreadSpec).                                                            *)

\* C18: nothing makes a decorated call wait for another: a call that has
\* run its body can always go on to its "finally" clause, whatever the
\* other calls are doing, and that step sets the process-wide figure size
\* to DEFAULT_FIGURE_SIZE.
C18_NoMutualExclusion ==
    /\ [](\A t \in DOMAIN threads :
             threads[t].pc = "reset" => ENABLED figure_size_reset(t))
    /\ [][\A t \in DOMAIN threads :
             (threads[t].pc = "reset" /\ threads'[t].pc = "done") =>
                 figsize' = DEFAULT_FIGURE_SIZE]_vars

\* One call finished while another was between the assignment of its size
\* and its body, and the body of that other call then ran under
\* DEFAULT_FIGURE_SIZE, which is not the size it asked for.
C18_Witness ==
    \E t, u \in DOMAIN threads :
        /\ t # u
        /\ threads[u].pc = "done"
        /\ threads[t].pc = "reset"
        /\ threads[t].seen = DEFAULT_FIGURE_SIZE
        /\ threads[t].seen # threads[t].size

-----------------------------------------------------------------------------
(* Claim about the three label loops (checked under LabelSpec).            *)

\* C19: the label loops of the three diagram plots place a label in the
\* same way: for the table and the coordinates of the state, what a diagram
\* plot placed for a label is what each of the three loops computes for that
\* label: the same bracket wavelengths, tangent, normal, tick, text offset
\* and alignment.
C19_SamePlacement ==
    \A p \in Placed :
        /\ p = label_1931(wavelengths, coordinates, p.label)
        /\ p = label_1960(wavelengths, coordinates, p.label)
        /\ p = label_1976(wavelengths, coordinates, p.label)

\* The 1976 plot placed a label for which the first candidate normal points
\* towards (1/3, 1/3) and the opposite one was chosen.
C19_Witness ==
    /\ diagram = "CIE 1976 UCS"
    /\ \E p \in Placed :
          /\ ~IsZero(p.tangent)
          /\ p.normal.dir = <<p.tangent[2], -p.tangent[1]>>
          /\ dot(Minus(p.point, EqualEnergy), <<-p.tangent[2], p.tangent[1]>>) < 0

-----------------------------------------------------------------------------
(* Claim about the two definitions of colour_checker_plot (checked under   *)
(* Spec).                                                                  *)

\* C20 as claimed: for the arguments of any call of colour_checker_plot, the
\* definition of plots.py and the definition of characterization.py issue
\* the same calls with the same arguments and end alike, and what the call
\* did is what both definitions do.
C20_AsClaimed ==
    call.fn = "colour_checker_plot" =>
        /\ colour_checker_plot("caller", call.python, call.colour_checker, call.n,
                               call.kwargs)
           = characterization_colour_checker_plot("caller", call.colour_checker,
                                                  call.n, call.kwargs)
        /\ outcome = characterization_colour_checker_plot("caller",
                         call.colour_checker, call.n, call.kwargs)


-----------------------------------------------------------------------------
(* Claim about the temperatures of blackbody_colours_plot (checked under   *)
(* Spec).                                                                  *)

\* The quadrilaterals filled by colour_parameters_plot, in order.
Fills == SelectSeq(Log, LAMBDA e : e.op = "pylab.fill" /\ e.by = "colour_parameters_plot")

\* C21 as claimed: for start <= end, the temperatures plotted by
\* blackbody_colours_plot are start, start + steps, start + 2 * steps, ...,
\* each of them is at least start and at most end, and one colour parameter
\* is plotted per temperature (n parameters make n - 1 quadrilaterals, the
\* i-th of them between the i-th and the (i + 1)-th temperature).
C21_AsClaimed ==
    (/\ call.fn = "blackbody_colours_plot"
     /\ call.start <= call.end
     /\ call.cmfs \in CMFS_KEYS) =>
        LET n == Len(arange(call.start, call.end + call.steps, call.steps))
        IN  /\ Len(Fills) = n - 1
            /\ \A i \in DOMAIN Fills :
                  /\ Fills[i].args.x[1] = Num(call.start + (i - 1) * call.steps)
                  /\ Fills[i].args.x[2] = Num(call.start + i * call.steps)
                  /\ call.start <= Fills[i].args.x[1].v
                  /\ Fills[i].args.x[1].v <= call.end
                  /\ call.start <= Fills[i].args.x[2].v
                  /\ Fills[i].args.x[2].v <= call.end


-----------------------------------------------------------------------------
(* Claims about the figure size of decorated calls (checked under Spec).   *)

\* The definitions of plots.py that carry the figure_size decorator.
Decorated ==
    {"CIE_1931_chromaticity_diagram_colours_plot",
     "CIE_1931_chromaticity_diagram_plot",
     "colourspaces_CIE_1931_chromaticity_diagram_plot",
     "planckian_locus_CIE_1931_chromaticity_diagram_plot",
     "CIE_1960_UCS_chromaticity_diagram_colours_plot",
     "CIE_1960_UCS_chromaticity_diagram_plot",
     "planckian_locus_CIE_1960_UCS_chromaticity_diagram_plot",
     "CIE_1976_UCS_chromaticity_diagram_colours_plot",
     "CIE_1976_UCS_chromaticity_diagram_plot",
     "multi_munsell_value_function_plot",
     "multi_lightness_function_plot",
     "multi_transfer_function_plot",
     "colour_rendering_index_bars_plot"}

\* The size given to the decorator of fn.
DecoratorSize(fn) ==
    IF fn \in {"CIE_1931_chromaticity_diagram_colours_plot",
               "CIE_1960_UCS_chromaticity_diagram_colours_plot",
               "CIE_1976_UCS_chromaticity_diagram_colours_plot"}
    THEN <<32, 32>> ELSE <<8, 8>>

\* The size that a call of fn with the keywords kw asks for.
Requested(fn, kw) ==
    IF ~IsNone(Get(kw, "figure_size")) THEN Get(kw, "figure_size").v
    ELSE DecoratorSize(fn)

\* Values of rcParams['figure.figsize'] before a call.
SizesBefore == FigureSizes \cup {DEFAULT_FIGURE_SIZE, <<4, 4>>, <<1, 1>>}

\* C22: after a call of a decorated definition, whether it returned or
\* raised, the global figure size is DEFAULT_FIGURE_SIZE whatever it was
\* before the call and whatever size was asked for; and when the decorated
\* body starts, the global figure size is the caller's figure_size option if
\* it is given and not None, else the size of the decorator.
C22_SizeRestored ==
    call.fn \in Decorated =>
        /\ figsize = DEFAULT_FIGURE_SIZE
        /\ \A before \in SizesBefore :
              /\ FigsizeAfter(before, Log) = DEFAULT_FIGURE_SIZE
              /\ \E i \in DOMAIN Log :
                    /\ Log[i] = Ev("call", "caller", call.fn)
                    /\ FigsizeAfter(before, SubSeq(Log, 1, i - 1))
                       = Requested(call.fn, call.kwargs)

\* A decorated call that was given a figure_size of its own has raised, and
\* the global figure size is the default and not the size given.
C22_Witness ==
    /\ call.fn \in Decorated
    /\ Raised(outcome)
    /\ ~IsNone(Get(call.kwargs, "figure_size"))
    /\ Requested(call.fn, call.kwargs) # DEFAULT_FIGURE_SIZE
    /\ \E i \in DOMAIN Log : Log[i] = Ev("call", "caller", call.fn)
    /\ figsize = DEFAULT_FIGURE_SIZE


\* The decorated definitions that call another decorated definition, and
\* the definition each of them calls.
Composites ==
    [planckian_locus_CIE_1931_chromaticity_diagram_plot |->
         "CIE_1931_chromaticity_diagram_plot",
     planckian_locus_CIE_1960_UCS_chromaticity_diagram_plot |->
         "CIE_1960_UCS_chromaticity_diagram_plot",
     colourspaces_CIE_1931_chromaticity_diagram_plot |->
         "CIE_1931_chromaticity_diagram_plot"]

\* The positions of the log at which the inner decorated call starts.
InnerCalls ==
    {i \in DOMAIN Log : /\ call.fn \in DOMAIN Composites
                        /\ Log[i] = Ev("call", call.fn, Composites[call.fn])}

\* The position at which the inner call that started at i is over: the next
\* assignment of the global figure size.
InnerReturn(i) ==
    CHOOSE k \in DOMAIN Log :
        /\ k > i
        /\ Log[k].op = "rcParams"
        /\ \A j \in (i + 1)..(k - 1) : Log[j].op # "rcParams"

\* C23: when a decorated plot calls another decorated plot, the return of
\* the inner call sets the global figure size to DEFAULT_FIGURE_SIZE, and
\* everything the outer body does afterwards, its final display included,
\* runs with the global figure size at the default, which is not the size
\* the outer call asked for.
C23_OuterRunsAtDefault ==
    \A i \in InnerCalls :
        LET k == InnerReturn(i)
        IN  /\ \E r \in DOMAIN Log : r > i /\ Log[r].op = "rcParams"
            /\ Log[k].args = DEFAULT_FIGURE_SIZE
            /\ \A j \in k..Len(Log) : \A before \in SizesBefore :
                  /\ FigsizeAfter(before, SubSeq(Log, 1, j)) = DEFAULT_FIGURE_SIZE
                  /\ FigsizeAfter(before, SubSeq(Log, 1, j))
                     # Requested(call.fn, call.kwargs)

\* A composite plot has returned, and its own display was called after the
\* return of the inner plot.
C23_Witness ==
    /\ ~Raised(outcome)
    /\ \E i \in InnerCalls : \E j \in DOMAIN Log :
          /\ j > InnerReturn(i)
          /\ Log[j].op = "display"
          /\ Log[j].by = call.fn
          /\ FigsizeAfter(figsize, SubSeq(Log, 1, i)) = Requested(call.fn, call.kwargs)
          /\ FigsizeAfter(figsize, SubSeq(Log, 1, j)) = DEFAULT_FIGURE_SIZE


-----------------------------------------------------------------------------
(* Claim about the grid of multi_colour_plot (checked under Spec).         *)

\* The swatches filled by multi_colour_plot, in order.
Swatches == SelectSeq(Log, LAMBDA e : e.op = "pylab.fill" /\ e.by = "multi_colour_plot")

\* multi_colour_plot was called, by the caller or by another plot.
MultiColourCalled ==
    \E i \in DOMAIN Log : Log[i].op = "call" /\ Log[i].args = "multi_colour_plot"

\* The number of colour parameters that multi_colour_plot was given.
SwatchCount ==
    IF call.fn = "colour_checker_plot" THEN call.n
    ELSE IF call.fn = "single_colour_plot" THEN 1
    ELSE Len(call.colour_parameters)

\* The layout that multi_colour_plot was given: its own defaults, replaced
\* by the values colour_checker_plot passes, replaced by the caller's.
Grid ==
    LET named == Named(multi_colour_plot_defaults,
                       IF call.fn = "colour_checker_plot"
                       THEN Update([width |-> Num(1000), height |-> Num(1000),
                                    spacing |-> Num(250), across |-> Num(6)],
                                   call.kwargs)
                       ELSE call.kwargs)
    IN  [width |-> named["width"].v, height |-> named["height"].v,
         spacing |-> named["spacing"].v, across |-> named["across"].v]

\* Two filled rectangles share no interior point.
Apart(a, b) ==
    \/ a.args.x[2] <= b.args.x[1]
    \/ b.args.x[2] <= a.args.x[1]
    \/ a.args.y[3] <= b.args.y[1]
    \/ b.args.y[3] <= a.args.y[1]

\* C24: multi_colour_plot fills one rectangle per colour parameter; swatch i
\* (from 0) has its lower-left corner at ((i mod across) * (width + spacing),
\* -(i div across) * (height + spacing)) and is width wide and height high;
\* with spacing >= 0 no two swatches overlap; and unless the caller gives
\* limits of their own, the limits passed to bounding_box are 0 and
\* min(n, across) * (width + spacing) - spacing for x, and the lower edge of
\* the last row and height for y.
C24_Grid ==
    (/\ call.fn \in {"multi_colour_plot", "single_colour_plot", "colour_checker_plot"}
     /\ MultiColourCalled) =>
        LET g == Grid
            n == SwatchCount
        IN  /\ Len(Swatches) = n
            /\ \A i \in 0..(n - 1) :
                  LET x0 == (i % g.across) * (g.width + g.spacing)
                      y0 == -(i \div g.across) * (g.height + g.spacing)
                  IN  /\ Swatches[i + 1].args.x
                         = <<x0, x0 + g.width, x0 + g.width, x0>>
                      /\ Swatches[i + 1].args.y
                         = <<y0, y0, y0 + g.height, y0 + g.height>>
            /\ g.spacing >= 0 =>
                  \A i \in 1..n : \A j \in (i + 1)..n : Apart(Swatches[i], Swatches[j])
            /\ \A k \in DOMAIN Log :
                  (/\ Log[k].op = "bounding_box"
                   /\ Log[k].by = "multi_colour_plot"
                   /\ "limits" \notin DOMAIN call.kwargs
                   /\ n >= 1) =>
                      Log[k].args["limits"]
                      = List(<<0,
                               Min(<<n, g.across>>) * (g.width + g.spacing) - g.spacing,
                               -((n - 1) \div g.across) * (g.height + g.spacing),
                               g.height>>)

\* A call filled swatches in more than one row, the last row not full, and
\* passed limits of its own making to bounding_box.
C24_Witness ==
    /\ call.fn \in {"multi_colour_plot", "colour_checker_plot"}
    /\ MultiColourCalled
    /\ Len(Swatches) > Grid.across
    /\ Len(Swatches) % Grid.across # 0
    /\ Grid.across > 1
    /\ Swatches[Len(Swatches)].args.y[1] < 0
    /\ \E k \in DOMAIN Log :
          /\ Log[k].op = "bounding_box"
          /\ Log[k].by = "multi_colour_plot"
          /\ "limits" \notin DOMAIN call.kwargs


-----------------------------------------------------------------------------
(* Claim about the quadrilaterals of colour_parameters_plot (checked under *)
(* Spec).                                                                  *)

\* y0 and y1 of a colour parameter, 0 and 1 standing in for None.
Y0(cp) == IF IsNone(cp.y0) THEN Num(0) ELSE cp.y0
Y1(cp) == IF IsNone(cp.y1) THEN Num(1000) ELSE cp.y1

\* C25 as claimed: for n >= 1 colour parameters colour_parameters_plot fills
\* n - 1 quadrilaterals; the i-th has on its left edge y0 and y1 of
\* parameter i and on its right edge y0 and y1 of parameter i + 1, each
\* parameter's missing y0 replaced by 0 and missing y1 by 1 on its own
\* account; and no y of a polygon is None.
C25_AsClaimed ==
    (/\ call.fn = "colour_parameters_plot"
     /\ Len(call.colour_parameters) >= 1) =>
        LET cps == call.colour_parameters
        IN  /\ Len(Fills) = Len(cps) - 1
            /\ \A i \in DOMAIN Fills :
                  /\ Fills[i].args.y
                     = <<Y0(cps[i]), Y0(cps[i + 1]), Y1(cps[i + 1]), Y1(cps[i])>>
                  /\ \A v \in 1..4 : ~IsNone(Fills[i].args.y[v])


-----------------------------------------------------------------------------
(* Claim about bounding_box (checked under Spec, for the direct calls and  *)
(* for every call that a plot makes).                                      *)

\* The axis limits set by the call of bounding_box logged at position k: the
\* calls of pylab.xlim and pylab.ylim that follow it directly.
RECURSIVE LimitsSet(_)
LimitsSet(k) ==
    IF k + 1 \in DOMAIN Log /\ Log[k + 1].by = "bounding_box"
    THEN <<Log[k + 1]>> \o LimitsSet(k + 1)
    ELSE <<>>

\* The value that the keywords kw give to key, or the value bounding_box
\* takes when they give none.
BoxOption(kw, key, default) == IF key \in DOMAIN kw THEN kw[key] ELSE default

\* C26: an explicit bounding_box has precedence: when one is given (and is
\* not None), x and y limits are set from it and limits, margins, x_tighten
\* and y_tighten have no effect; when none is given, the x limits are set to
\* (limits[0] + margins[0], limits[1] + margins[1]) only if x_tighten is
\* true, the y limits to (limits[2] + margins[2], limits[3] + margins[3])
\* only if y_tighten is true, and nothing is set for an axis whose flag is
\* false.
C26_Precedence ==
    \A k \in Calls("bounding_box") :
        LET kw  == Log[k].args
            box == BoxOption(kw, "bounding_box", None)
            l   == BoxOption(kw, "limits", List(<<0, 1000, 0, 1000>>)).v
            m   == BoxOption(kw, "margins", List(<<0, 0, 0, 0>>)).v
            xt  == Truthy(BoxOption(kw, "x_tighten", Bool(FALSE)))
            yt  == Truthy(BoxOption(kw, "y_tighten", Bool(FALSE)))
            set == LimitsSet(k)
            xs  == SelectSeq(set, LAMBDA e : e.op = "pylab.xlim")
            ys  == SelectSeq(set, LAMBDA e : e.op = "pylab.ylim")
        IN  /\ Len(set) = Len(xs) + Len(ys)
            /\ IF ~IsNone(box)
               THEN /\ xs = <<Ev("pylab.xlim", "bounding_box",
                                 List(<<box.v[1], box.v[2]>>))>>
                    /\ ys = <<Ev("pylab.ylim", "bounding_box",
                                 List(<<box.v[3], box.v[4]>>))>>
               ELSE /\ xs = IF xt
                            THEN <<Ev("pylab.xlim", "bounding_box",
                                      List(<<l[1] + m[1], l[2] + m[2]>>))>>
                            ELSE <<>>
                    /\ ys = IF yt
                            THEN <<Ev("pylab.ylim", "bounding_box",
                                      List(<<l[3] + m[3], l[4] + m[4]>>))>>
                            ELSE <<>>

\* bounding_box was called with an explicit box together with limits,
\* margins and a true x_tighten, and set the limits of the box.
C26_Witness ==
    /\ call.fn = "bounding_box"
    /\ ~IsNone(Get(call.kwargs, "bounding_box"))
    /\ Truthy(Get(call.kwargs, "x_tighten"))
    /\ Truthy(Get(call.kwargs, "y_tighten"))
    /\ ~IsNone(Get(call.kwargs, "limits"))
    /\ ~IsNone(Get(call.kwargs, "margins"))
    /\ LimitsSet(1) = <<Ev("pylab.xlim", "bounding_box", List(<<0, 500>>)),
                        Ev("pylab.ylim", "bounding_box", List(<<0, 500>>))>>


-----------------------------------------------------------------------------
(* Claim about the limits of                                               *)
(* colourspaces_CIE_1931_chromaticity_diagram_plot (checked under Spec).   *)

\* The coordinates (axis 1 for x, 2 for y) of the primaries of the listed
\* RGB colourspaces, 'Pointer Gamut' not being one.
PrimaryCoordinates(axis) ==
    {RGB_COLOURSPACES_get(call.colourspaces[i]).primaries[p][axis] :
        i \in {j \in DOMAIN call.colourspaces : call.colourspaces[j] # "Pointer Gamut"},
        p \in 1..3}

Least(S) == CHOOSE m \in S : \A s \in S : m <= s
Greatest(S) == CHOOSE m \in S : \A s \in S : m >= s

\* The arguments of the last call of op, the limits in force at the end.
FinalLimits(op) == Log[Greatest(Calls(op))].args

\* The positions of the list that hold 'Pointer Gamut', and the plots of the
\* gamut in the log.
GamutEntries == {i \in DOMAIN call.colourspaces : call.colourspaces[i] = "Pointer Gamut"}
GamutPlots ==
    {k \in Calls("pylab.plot") :
        /\ "label" \in DOMAIN Log[k].args
        /\ Log[k].args.label = "Pointer Gamut"}

\* C27: when colourspaces_CIE_1931_chromaticity_diagram_plot, called without
\* a bounding_box option, returns, the limits in force are
\* min(-0.1, smallest primary x) - 0.05 and max(0.9, largest primary x) + 0.05
\* for x and likewise for y, over the listed RGB colourspaces, so they
\* contain the base box (-0.1, 0.9); each 'Pointer Gamut' entry is drawn as
\* its outline followed by the segment from its last point to its first,
\* needs no colourspace lookup, and has no part in the limits.
C27_Limits ==
    (/\ call.fn = "colourspaces_CIE_1931_chromaticity_diagram_plot"
     /\ "bounding_box" \notin DOMAIN call.kwargs
     /\ ~Raised(outcome)) =>
        LET x == FinalLimits("pylab.xlim").v
            y == FinalLimits("pylab.ylim").v
        IN  /\ x = <<Least({-100} \cup PrimaryCoordinates(1)) - 50,
                     Greatest({900} \cup PrimaryCoordinates(1)) + 50>>
            /\ y = <<Least({-100} \cup PrimaryCoordinates(2)) - 50,
                     Greatest({900} \cup PrimaryCoordinates(2)) + 50>>
            /\ x[1] <= -100 /\ x[2] >= 900 /\ y[1] <= -100 /\ y[2] >= 900
            /\ Cardinality(GamutPlots) = Cardinality(GamutEntries)
            /\ \A k \in GamutPlots :
                  /\ Log[k].args.points = POINTER_GAMUT_DATA
                  /\ Log[k + 1].op = "pylab.plot"
                  /\ Log[k + 1].args
                     = [points |-> <<POINTER_GAMUT_DATA[Len(POINTER_GAMUT_DATA)],
                                     POINTER_GAMUT_DATA[1]>>]

\* The plot returned for a list that holds 'Pointer Gamut' and a colourspace
\* with a primary outside the base box, so that the limits were widened.
C27_Witness ==
    /\ call.fn = "colourspaces_CIE_1931_chromaticity_diagram_plot"
    /\ ~Raised(outcome)
    /\ GamutEntries # {}
    /\ Greatest({900} \cup PrimaryCoordinates(2)) > 900
    /\ FinalLimits("pylab.ylim").v[2] > 950
    /\ FinalLimits("pylab.xlim").v = <<-150, 950>>


-----------------------------------------------------------------------------
(* Claim about the bracket of a label (checked under LabelSpec).           *)

\* C28 as claimed: for every label that is a wavelength of the table, the
\* first and the last included, the left and the right bracket sample are
\* two different wavelengths of the table, so that the tangent is taken
\* between two different samples and the normal is not the normalisation of
\* a zero vector.
C28_AsClaimed ==
    \A p \in Placed :
        /\ \E i \in DOMAIN wavelengths : wavelengths[i] = p.left
        /\ \E i \in DOMAIN wavelengths : wavelengths[i] = p.right
        /\ p.left # p.right


-----------------------------------------------------------------------------
(* Claim about the colours of multi_cmfs_plot (checked under Spec).        *)

\* The curves that multi_cmfs_plot has drawn for an axis, in order.
CurvesOfAxis(axis) ==
    SelectSeq(Log, LAMBDA e : /\ e.op = "pylab.plot"
                              /\ e.by = "multi_cmfs_plot"
                              /\ e.args.axis = axis)

\* C29: in multi_cmfs_plot, for each of the axes x, y and z, the curve of the
\* i-th listed colour matching functions (i from 0) is drawn in the base
\* colour of the axis halved i * (i + 1) / 2 times, the halved colour being
\* carried from one entry of the list to the next, and the count starts
\* again at 0 for each axis; a call that returns has drawn one curve per
\* entry and axis.
C29_CarriedHalving ==
    call.fn = "multi_cmfs_plot" =>
        \A axis \in {"x", "y", "z"} :
            LET curves == CurvesOfAxis(axis)
            IN  /\ \A j \in DOMAIN curves :
                      /\ curves[j].args.label = call.cmfss[j]
                      /\ curves[j].args.halvings = ((j - 1) * j) \div 2
                /\ ~Raised(outcome) => Len(curves) = Len(call.cmfss)

\* A call for three colour matching functions has returned; the third curve
\* of the last axis has the colour halved three times and the first curve of
\* that axis has the base colour.
C29_Witness ==
    /\ call.fn = "multi_cmfs_plot"
    /\ ~Raised(outcome)
    /\ Len(call.cmfss) = 3
    /\ Len(CurvesOfAxis("z")) = 3
    /\ CurvesOfAxis("z")[1].args.halvings = 0
    /\ CurvesOfAxis("z")[3].args.halvings = 3
    /\ CurvesOfAxis("x")[3].args.halvings = 3

=============================================================================
